---- MODULE Spec2Model ----
(***************************************************************************)
(* Model of fetchFreeGames (epic-games-free-games): the per-element        *)
(* promotion classification, date formatting and record assembly.          *)
(*                                                                         *)
(* Strings that the code inspects character by character (the timezone     *)
(* identifier, the formatted price) are sequences of one-character         *)
(* strings.  Date strings are records: the empty string, an unparseable    *)
(* text, an RFC3339 timestamp (an instant, in seconds), the rendering      *)
(* "2006-01-02 15:04:05 MST" of a wall-clock time in a zone, or the        *)
(* literal "Unknown".                                                      *)
(***************************************************************************)
EXTENDS Integers, Sequences, FiniteSets, TLC

VARIABLES elements, timezone, includeUpcoming, clock,
          pc, idx, game, isCurrentlyFree, hasUpcomingFree,
          games, origin, err,
          route, webhookURL, query, sendNotification,
          upstreamCalls, posts, sendErr, response, logs,
          inv, buffers, outbox,
          countryCode, locale,
          history

\* The state of the caller of fetchFreeGames: a route of the server or the
\* scheduled job.
handlerVars == <<route, webhookURL, query, sendNotification,
                 posts, sendErr, response, logs>>

\* The state of several invocations that run at the same time: the locals
\* of each, the lists they build, the messages the webhook has received.
concVars == <<inv, buffers, outbox>>

\* The state of one invocation on its own.
\* The store fetchFreeGames asks the catalog for.
storeVars == <<countryCode, locale>>

soloVars == <<elements, timezone, includeUpcoming, clock,
              pc, idx, game, isCurrentlyFree, hasUpcomingFree,
              games, origin, err, upstreamCalls, handlerVars, storeVars, history>>

vars == <<soloVars, concVars>>

(***************************************************************************)
(* Bounds of the model.                                                    *)
(***************************************************************************)
MaxElements == 2
MaxOffers == 2
MaxSubOffers == 2
MaxPromos == 2

(***************************************************************************)
(* Program constants.                                                      *)
(***************************************************************************)
FreeDiscount == 100
FallbackOffsetHours == 8
EstimateDays == 7
SecondsPerHour == 60 * 60
SecondsPerDay == 24 * SecondsPerHour

(***************************************************************************)
(* Strings as character sequences.                                         *)
(***************************************************************************)
HasPrefix(s, p) == Len(s) >= Len(p) /\ SubSeq(s, 1, Len(p)) = p

TrimPrefix(s, p) == IF HasPrefix(s, p) THEN SubSeq(s, Len(p) + 1, Len(s)) ELSE s

Contains(s, sub) ==
    \E k \in 0..(Len(s) - Len(sub)) : SubSeq(s, k + 1, k + Len(sub)) = sub

LowerChar(c) ==
    CASE c = "F" -> "f"
      [] c = "R" -> "r"
      [] c = "E" -> "e"
      [] c = "U" -> "u"
      [] c = "T" -> "t"
      [] c = "C" -> "c"
      [] c = "G" -> "g"
      [] c = "M" -> "m"
      [] OTHER -> c

ToLower(s) == [k \in 1..Len(s) |-> LowerChar(s[k])]

(***************************************************************************)
(* Date strings.                                                           *)
(***************************************************************************)
EmptyDate == [kind |-> "empty", t |-> 0, zone |-> <<>>]
Unknown == [kind |-> "Unknown", t |-> 0, zone |-> <<>>]
RawDate(n) == [kind |-> "raw", t |-> n, zone |-> <<>>]
Rfc3339(t) == [kind |-> "rfc3339", t |-> t, zone |-> <<>>]
Formatted(wall, zone) == [kind |-> "formatted", t |-> wall, zone |-> zone]

(***************************************************************************)
(* time.LoadLocation: the zone names the tz database knows, out of the     *)
(* names the model draws.  The empty name and "UTC" are UTC.               *)
(***************************************************************************)
TzUTC == <<"U", "T", "C">>
TzGMT == <<"G", "M", "T">>
TzManila == <<"A", "s", "i", "a", "/", "M", "a", "n", "i", "l", "a">>
TzUTCPlus3 == <<"U", "T", "C", "+", "3">>
TzUTCPlus8 == <<"U", "T", "C", "+", "8">>
TzMars == <<"M", "a", "r", "s", "/", "P", "h", "o", "b", "o", "s">>

Location(name, offset) == [name |-> name, offset |-> offset]

LoadLocation(tz) ==
    CASE tz = <<>> -> [ok |-> TRUE, loc |-> Location(TzUTC, 0)]
      [] tz = TzUTC -> [ok |-> TRUE, loc |-> Location(TzUTC, 0)]
      [] tz = TzManila ->
            [ok |-> TRUE, loc |-> Location(<<"P", "S", "T">>, 8 * SecondsPerHour)]
      [] OTHER -> [ok |-> FALSE, loc |-> Location(<<>>, 0)]

(***************************************************************************)
(* fmt.Sscanf(offsetStr, "%d", &offsetHours): leading spaces are skipped,  *)
(* an optional sign is accepted, then at least one decimal digit is        *)
(* required; the digits are read greedily and whatever follows them is     *)
(* left unread without error.                                              *)
(***************************************************************************)
Digits == {"0", "1", "2", "3", "4", "5", "6", "7", "8", "9"}

DigitValue(c) ==
    CASE c = "0" -> 0 [] c = "1" -> 1 [] c = "2" -> 2 [] c = "3" -> 3
      [] c = "4" -> 4 [] c = "5" -> 5 [] c = "6" -> 6 [] c = "7" -> 7
      [] c = "8" -> 8 [] c = "9" -> 9

RECURSIVE SkipSpace(_)
SkipSpace(s) ==
    IF s # <<>> /\ Head(s) = " " THEN SkipSpace(Tail(s)) ELSE s

RECURSIVE ScanNumber(_, _)
ScanNumber(s, acc) ==
    IF s # <<>> /\ Head(s) \in Digits
    THEN ScanNumber(Tail(s), 10 * acc + DigitValue(Head(s)))
    ELSE acc

SscanfInt(str) ==
    LET s == SkipSpace(str)
        signed == s # <<>> /\ Head(s) \in {"+", "-"}
        body == IF signed THEN Tail(s) ELSE s
        magnitude == ScanNumber(body, 0)
    IN  IF body = <<>> \/ Head(body) \notin Digits
        THEN [ok |-> FALSE, value |-> 0]
        ELSE [ok |-> TRUE,
              value |-> IF signed /\ Head(s) = "-" THEN 0 - magnitude ELSE magnitude]

(***************************************************************************)
(* The zone formatDate renders in.                                         *)
(***************************************************************************)
FallbackLocation == Location(TzUTCPlus8, FallbackOffsetHours * SecondsPerHour)

FormatLocation_NoOffsets(tz) ==
    LET loaded == LoadLocation(tz) IN
    IF loaded.ok THEN loaded.loc ELSE FallbackLocation

FormatLocation(tz) ==
    LET loaded == LoadLocation(tz) IN
    IF loaded.ok THEN loaded.loc
    ELSE IF HasPrefix(tz, TzUTC) \/ HasPrefix(tz, TzGMT)
         THEN LET offsetStr == TrimPrefix(TrimPrefix(tz, TzUTC), TzGMT)
                  scanned == SscanfInt(offsetStr)
              IN  IF offsetStr = <<>> THEN Location(TzUTC, 0)
                  ELSE IF scanned.ok
                       THEN Location(tz, scanned.value * SecondsPerHour)
                       ELSE FallbackLocation
         ELSE FallbackLocation

formatDate(dateStr, tz) ==
    IF dateStr.kind # "rfc3339" THEN dateStr
    ELSE LET location == FormatLocation(tz)
         IN  Formatted(dateStr.t + location.offset, location.name)

(***************************************************************************)
(* The zone of the price heuristic: LoadLocation or the fixed fallback.    *)
(***************************************************************************)
EstimateLocation(tz) ==
    LET loaded == LoadLocation(tz) IN
    IF loaded.ok THEN loaded.loc ELSE FallbackLocation

(***************************************************************************)
(* Upstream data: sub-offers, offers, promotion lists, prices, entries.    *)
(***************************************************************************)
T1 == 1 * SecondsPerDay
T2 == 3 * SecondsPerDay
T3 == 5 * SecondsPerDay

SubOffer(start, end, pct) ==
    [StartDate |-> start, EndDate |-> end, DiscountPercentage |-> pct]

SubOffers ==
    { SubOffer(Rfc3339(T1), Rfc3339(T2), FreeDiscount),
      SubOffer(EmptyDate, EmptyDate, FreeDiscount),
      SubOffer(Rfc3339(T2), EmptyDate, FreeDiscount),
      SubOffer(RawDate(1), Rfc3339(T3), 50),
      SubOffer(EmptyDate, Rfc3339(T1), 50) }

SeqsUpTo(S, n) == UNION { [1..k -> S] : k \in 0..n }

Min(a, b) == IF a < b THEN a ELSE b

OffersOf == [n \in 0..MaxSubOffers |->
               { [PromotionalOffers |-> subs] : subs \in [1..n -> SubOffers] }]

\* OfferListsOf[n, k]: the promotion lists of exactly k offers that hold n
\* sub-offers in all.
OfferListsOf[n \in 0..MaxPromos, k \in 0..MaxOffers] ==
    IF k = 0 THEN (IF n = 0 THEN {<<>>} ELSE {})
    ELSE UNION { { <<o>> \o l : o \in OffersOf[m], l \in OfferListsOf[n - m, k - 1] } :
                   m \in 0..Min(n, MaxSubOffers) }

OfferLists == [n \in 0..MaxPromos |-> UNION { OfferListsOf[n, k] : k \in 0..MaxOffers }]

PriceZeroDollar == <<"$", "0", ".", "0", "0">>
PriceZero == <<"0">>
PriceEmpty == <<>>
PriceFreeWord == <<"F", "r", "e", "e">>
PricePaid == <<"$", "9", ".", "9", "9">>

Prices == {PriceZeroDollar, PriceZero, PriceEmpty, PriceFreeWord, PricePaid}

Entry(current, upcoming, price) ==
    [Title |-> "A",
     Description |-> "",
     Seller |-> "",
     KeyImages |-> <<>>,
     OfferMappings |-> <<>>,
     CatalogMappings |-> <<>>,
     PromotionalOffers |-> current,
     UpcomingPromotionalOffers |-> upcoming,
     DiscountPrice |-> price]

Titled(title, entry) == [entry EXCEPT !.Title = title]

\* How MaxPromos sub-offers at most are split between the two lists.
PromoSplits == { m \in (0..MaxPromos) \X (0..MaxPromos) : m[1] + m[2] <= MaxPromos }

Free100 == SubOffer(Rfc3339(T1), Rfc3339(T2), FreeDiscount)
Half50 == SubOffer(RawDate(1), Rfc3339(T3), 50)
OneOffer(sub) == << [PromotionalOffers |-> <<sub>>] >>

SampleEntries ==
    { Titled("A", Entry(OneOffer(Free100), <<>>, PricePaid)),
      Titled("B", Entry(<<>>, OneOffer(Free100), PricePaid)),
      Titled("B", Entry(<<>>, OneOffer(Free100), PriceZero)),
      Titled("C", Entry(OneOffer(Half50), <<>>, PriceZeroDollar)),
      Titled("A", Entry(<<>>, <<>>, PriceFreeWord)),
      Titled("D", Entry(<<>>, <<>>, PricePaid)) }

Timezones == {TzUTC, TzUTCPlus3}

ClockStart == 10 * SecondsPerDay

(***************************************************************************)
(* The record under construction.                                          *)
(***************************************************************************)
NewGame ==
    [Title |-> "", Description |-> "", ImageURL |-> "", URL |-> <<>>, Publisher |-> "",
     Status |-> "", StartDate |-> EmptyDate, EndDate |-> EmptyDate, DatePrecision |-> ""]

(***************************************************************************)
(* The image of the record: the first key image of one of the two types.   *)
(***************************************************************************)
KeyImage(type, url) == [Type |-> type, URL |-> url]

IsCover(img) == img.Type = "Thumbnail" \/ img.Type = "DieselGameBox"

RECURSIVE SelectImage_Last(_)
SelectImage_Last(images) ==
    IF images = <<>> THEN ""
    ELSE IF IsCover(images[Len(images)]) THEN images[Len(images)].URL
         ELSE SelectImage_Last(SubSeq(images, 1, Len(images) - 1))

RECURSIVE SelectImage(_)
SelectImage(images) ==
    IF images = <<>> THEN ""
    ELSE IF IsCover(Head(images)) THEN Head(images).URL
         ELSE SelectImage(Tail(images))

(***************************************************************************)
(* The page of the record: the first non-empty pageSlug of offerMappings,  *)
(* else of catalogNs.mappings, after the fixed base of the store.          *)
(***************************************************************************)
StoreBase ==
    << "h", "t", "t", "p", "s", ":", "/", "/", "s", "t", "o", "r", "e",
       ".", "e", "p", "i", "c", "g", "a", "m", "e", "s", ".", "c", "o",
       "m", "/", "e", "n", "-", "U", "S", "/", "p", "/" >>

RECURSIVE FirstSlug(_)
FirstSlug(mappings) ==
    IF mappings = <<>> THEN <<>>
    ELSE IF Head(mappings).PageSlug # <<>> THEN Head(mappings).PageSlug
         ELSE FirstSlug(Tail(mappings))

ResolveSlug_OfferHead(offerMappings, catalogMappings) ==
    LET pageSlug == IF Len(offerMappings) > 0 THEN offerMappings[1].PageSlug ELSE <<>>
    IN  IF pageSlug = <<>> /\ Len(catalogMappings) > 0
        THEN FirstSlug(catalogMappings)
        ELSE pageSlug

ResolveSlug(offerMappings, catalogMappings) ==
    LET pageSlug == IF Len(offerMappings) > 0 THEN FirstSlug(offerMappings) ELSE <<>>
    IN  IF pageSlug = <<>> /\ Len(catalogMappings) > 0
        THEN FirstSlug(catalogMappings)
        ELSE pageSlug

GameURL(pageSlug) == StoreBase \o pageSlug

\* The record as the loop has it before the promotions are scanned.
InitialGame(e) ==
    [NewGame EXCEPT !.Title = e.Title,
                    !.Description = e.Description,
                    !.Publisher = e.Seller,
                    !.ImageURL = SelectImage(e.KeyImages),
                    !.URL = GameURL(ResolveSlug(e.OfferMappings, e.CatalogMappings))]

(***************************************************************************)
(* One pass over a promotions list: every sub-offer of every offer, in     *)
(* list order; each 100% sub-offer overwrites status, dates and precision. *)
(***************************************************************************)
ApplyPromo_AnyDiscount(st, promo, status, tz) ==
    IF promo.DiscountPercentage >= 50
    THEN [found |-> TRUE,
          game |-> [st.game EXCEPT
                      !.Status = status,
                      !.StartDate = formatDate(promo.StartDate, tz),
                      !.EndDate = formatDate(promo.EndDate, tz),
                      !.DatePrecision = "exact"]]
    ELSE st

ApplyPromo_FirstWins(st, promo, status, tz) ==
    IF promo.DiscountPercentage = FreeDiscount /\ ~st.found
    THEN [found |-> TRUE,
          game |-> [st.game EXCEPT
                      !.Status = status,
                      !.StartDate = formatDate(promo.StartDate, tz),
                      !.EndDate = formatDate(promo.EndDate, tz),
                      !.DatePrecision = "exact"]]
    ELSE st

ApplyPromo(st, promo, status, tz) ==
    IF promo.DiscountPercentage = FreeDiscount
    THEN [found |-> TRUE,
          game |-> [st.game EXCEPT
                      !.Status = status,
                      !.StartDate = formatDate(promo.StartDate, tz),
                      !.EndDate = formatDate(promo.EndDate, tz),
                      !.DatePrecision = "exact"]]
    ELSE st

RECURSIVE ScanSubOffers(_, _, _, _)
ScanSubOffers(promos, st, status, tz) ==
    IF promos = <<>> THEN st
    ELSE ScanSubOffers(Tail(promos), ApplyPromo(st, Head(promos), status, tz), status, tz)

RECURSIVE ScanOffers(_, _, _, _)
ScanOffers(offers, st, status, tz) ==
    IF offers = <<>> THEN st
    ELSE ScanOffers(Tail(offers),
                    ScanSubOffers(Head(offers).PromotionalOffers, st, status, tz),
                    status, tz)

(***************************************************************************)
(* Whether the upcoming promotions are scanned.                            *)
(***************************************************************************)
ShouldScanUpcoming_NoPriority(currentlyFree, upcoming) == upcoming

ShouldScanUpcoming_Inverted(currentlyFree, upcoming) == ~currentlyFree /\ ~upcoming

ShouldScanUpcoming(currentlyFree, upcoming) == ~currentlyFree /\ upcoming

(***************************************************************************)
(* The price heuristic.                                                    *)
(***************************************************************************)
IsFreePrice_NoEmpty(price) ==
    \/ price = PriceZeroDollar
    \/ price = PriceZero
    \/ Contains(ToLower(price), <<"f", "r", "e", "e">>)

IsFreePrice_NonEmpty(price) ==
    \/ price = PriceZeroDollar
    \/ price = PriceZero
    \/ price # <<>>
    \/ Contains(ToLower(price), <<"f", "r", "e", "e">>)

IsFreePrice(price) ==
    \/ price = PriceZeroDollar
    \/ price = PriceZero
    \/ price = <<>>
    \/ Contains(ToLower(price), <<"f", "r", "e", "e">>)

EstimatedGame_Months(g, tz, now) ==
    LET location == EstimateLocation(tz)
        wall == now + location.offset
    IN  [g EXCEPT !.Status = "free",
                  !.StartDate = Formatted(wall, location.name),
                  !.EndDate = Formatted(wall + EstimateDays * 30 * SecondsPerDay, location.name),
                  !.DatePrecision = "estimated"]

EstimatedGame_NoPrecision(g, tz, now) ==
    LET location == EstimateLocation(tz)
        wall == now + location.offset
    IN  [g EXCEPT !.Status = "free",
                  !.StartDate = Formatted(wall, location.name),
                  !.EndDate = Formatted(wall + EstimateDays * SecondsPerDay, location.name)]

EstimatedGame(g, tz, now) ==
    LET location == EstimateLocation(tz)
        wall == now + location.offset
    IN  [g EXCEPT !.Status = "free",
                  !.StartDate = Formatted(wall, location.name),
                  !.EndDate = Formatted(wall + EstimateDays * SecondsPerDay, location.name),
                  !.DatePrecision = "estimated"]

(***************************************************************************)
(* The fallback rescan of the current promotions: the first offer whose    *)
(* first sub-offer has both dates non-empty.                               *)
(***************************************************************************)
NeedsFallback_EstimatedOnly(g) ==
    g.Status = "free" /\ g.DatePrecision = "estimated"

NeedsFallback(g) ==
    /\ g.Status = "free"
    /\ \/ (g.StartDate = EmptyDate /\ g.EndDate = EmptyDate)
       \/ g.DatePrecision = "estimated"

RECURSIVE FallbackDates(_, _, _)
FallbackDates(offers, g, tz) ==
    IF offers = <<>> THEN g
    ELSE LET offer == Head(offers) IN
         IF Len(offer.PromotionalOffers) > 0
            /\ offer.PromotionalOffers[1].StartDate # EmptyDate
            /\ offer.PromotionalOffers[1].EndDate # EmptyDate
         THEN [g EXCEPT !.StartDate = formatDate(offer.PromotionalOffers[1].StartDate, tz),
                        !.EndDate = formatDate(offer.PromotionalOffers[1].EndDate, tz),
                        !.DatePrecision = "exact"]
         ELSE FallbackDates(Tail(offers), g, tz)

(***************************************************************************)
(* The final guard.                                                        *)
(***************************************************************************)
MarkUnknown_Either(g) ==
    IF g.StartDate = EmptyDate \/ g.EndDate = EmptyDate
    THEN [g EXCEPT !.StartDate = Unknown, !.EndDate = Unknown, !.DatePrecision = "unknown"]
    ELSE g

MarkUnknown(g) ==
    IF g.StartDate = EmptyDate /\ g.EndDate = EmptyDate
    THEN [g EXCEPT !.StartDate = Unknown, !.EndDate = Unknown, !.DatePrecision = "unknown"]
    ELSE g

(***************************************************************************)
(* Errors of fetchFreeGames, requests and responses of the server.         *)
(***************************************************************************)
NoError == "nil"

FetchErrors == {"error sending request", "bad status", "error decoding response"}

\* strconv.ParseBool
ParseBool(str) ==
    IF str \in {"1", "t", "T", "TRUE", "true", "True"}
    THEN [ok |-> TRUE, value |-> TRUE]
    ELSE IF str \in {"0", "f", "F", "FALSE", "false", "False"}
         THEN [ok |-> TRUE, value |-> FALSE]
         ELSE [ok |-> FALSE, value |-> FALSE]

QueryValues == {"", "true", "0", "yes"}

NoQuery ==
    [upcoming |-> "", notify |-> "", country |-> "", locale |-> "", timezone |-> <<>>]

\* The requests that set upcoming and notify, and those that name a store
\* or a timezone.
Queries ==
    { [NoQuery EXCEPT !.upcoming = u, !.notify = n] : u \in QueryValues, n \in QueryValues }
    \cup { [NoQuery EXCEPT !.country = c, !.locale = l, !.timezone = z] :
              c \in {"", "GB"}, l \in {"", "en-GB"}, z \in {<<>>, TzUTCPlus8} }

WebhookURLs == {"", "https://discord.test/hook"}

NoResponse ==
    [Status |-> 0, Kind |-> "none", Success |-> FALSE, Count |-> 0,
     Data |-> <<>>, Message |-> <<>>]

StatusOK == 200

StatusInternalServerError == 500

\* http.Error: a plain-text body with the given status code.
HttpError(message, code) ==
    [Status |-> code, Kind |-> "text", Success |-> FALSE, Count |-> 0,
     Data |-> <<>>, Message |-> message]

(***************************************************************************)
(* fetchFreeGames, one action per stage of the function.                   *)
(***************************************************************************)
element == elements[idx]

TypeOK ==
    /\ pc \in {"fetch", "loop", "scanCurrent", "scanUpcoming", "price",
               "filter", "fallback", "guard", "return",
               "request", "send", "sent", "respond", "done"}
    /\ idx \in 1..(Len(elements) + 1)
    /\ Len(games) = Len(origin)
    /\ includeUpcoming \in BOOLEAN
    /\ err \in {NoError} \cup FetchErrors
    /\ upstreamCalls \in 0..1

InitFetch ==
    /\ history = <<>>
    /\ countryCode = "PH"
    /\ locale = "en-PH"
    /\ inv = <<>>
    /\ buffers = <<>>
    /\ outbox = <<>>
    /\ clock = ClockStart
    /\ idx = 1
    /\ game = NewGame
    /\ isCurrentlyFree = FALSE
    /\ hasUpcomingFree = FALSE
    /\ games = <<>>
    /\ origin = <<>>
    /\ err = NoError
    /\ upstreamCalls = 0

\* fetchFreeGames called on its own, with any value of its parameters.
InitParams ==
    /\ timezone \in Timezones
    /\ includeUpcoming \in BOOLEAN
    /\ pc = "fetch"
    /\ InitFetch
    /\ route = "none"
    /\ webhookURL = ""
    /\ query = NoQuery
    /\ sendNotification = FALSE
    /\ posts = <<>>
    /\ sendErr = "unset"
    /\ response = NoResponse
    /\ logs = <<>>

Init ==
    /\ elements \in SeqsUpTo(SampleEntries, MaxElements)
    /\ InitParams

InitEntry ==
    /\ \E n \in PromoSplits :
         \E c \in OfferLists[n[1]], u \in OfferLists[n[2]], p \in Prices :
            elements = << Entry(c, u, p) >>
    /\ InitParams

FetchOk ==
    /\ pc = "fetch"
    /\ upstreamCalls' = upstreamCalls + 1
    /\ pc' = "loop"
    /\ UNCHANGED <<elements, timezone, includeUpcoming, clock, idx, game,
                   isCurrentlyFree, hasUpcomingFree, games, origin, err>>
    /\ UNCHANGED handlerVars
    /\ UNCHANGED <<concVars, storeVars, history>>

FetchFail ==
    /\ pc = "fetch"
    /\ upstreamCalls' = upstreamCalls + 1
    /\ \E e \in FetchErrors : err' = e
    /\ pc' = "return"
    /\ UNCHANGED <<elements, timezone, includeUpcoming, clock, idx, game,
                   isCurrentlyFree, hasUpcomingFree, games, origin>>
    /\ UNCHANGED handlerVars
    /\ UNCHANGED <<concVars, storeVars, history>>

NextElement ==
    /\ pc = "loop"
    /\ idx <= Len(elements)
    /\ game' = InitialGame(element)
    /\ isCurrentlyFree' = FALSE
    /\ hasUpcomingFree' = FALSE
    /\ pc' = "scanCurrent"
    /\ UNCHANGED <<elements, timezone, includeUpcoming, clock, idx, games, origin, err>>
    /\ UNCHANGED <<upstreamCalls, handlerVars>>
    /\ UNCHANGED <<concVars, storeVars, history>>

Return ==
    /\ pc = "loop"
    /\ idx > Len(elements)
    /\ pc' = "return"
    /\ UNCHANGED <<elements, timezone, includeUpcoming, clock, idx, game,
                   isCurrentlyFree, hasUpcomingFree, games, origin, err>>
    /\ UNCHANGED <<upstreamCalls, handlerVars>>
    /\ UNCHANGED <<concVars, storeVars, history>>

ScanCurrent ==
    /\ pc = "scanCurrent"
    /\ LET st == ScanOffers(element.PromotionalOffers,
                            [found |-> isCurrentlyFree, game |-> game],
                            "free", timezone)
       IN  /\ isCurrentlyFree' = st.found
           /\ game' = st.game
    /\ pc' = "scanUpcoming"
    /\ UNCHANGED <<elements, timezone, includeUpcoming, clock, idx,
                   hasUpcomingFree, games, origin, err>>
    /\ UNCHANGED <<upstreamCalls, handlerVars>>
    /\ UNCHANGED <<concVars, storeVars, history>>

ScanUpcoming ==
    /\ pc = "scanUpcoming"
    /\ IF ShouldScanUpcoming(isCurrentlyFree, includeUpcoming)
       THEN LET st == ScanOffers(element.UpcomingPromotionalOffers,
                                 [found |-> hasUpcomingFree, game |-> game],
                                 "coming soon", timezone)
            IN  /\ hasUpcomingFree' = st.found
                /\ game' = st.game
       ELSE UNCHANGED <<hasUpcomingFree, game>>
    /\ pc' = "price"
    /\ UNCHANGED <<elements, timezone, includeUpcoming, clock, idx,
                   isCurrentlyFree, games, origin, err>>
    /\ UNCHANGED <<upstreamCalls, handlerVars>>
    /\ UNCHANGED <<concVars, storeVars, history>>

Continue ==
    /\ idx' = idx + 1
    /\ pc' = "loop"

PriceCheck ==
    /\ pc = "price"
    /\ IF ~isCurrentlyFree /\ ~hasUpcomingFree
       THEN IF IsFreePrice(element.DiscountPrice)
            THEN /\ game' = EstimatedGame(game, timezone, clock)
                 /\ pc' = "filter"
                 /\ idx' = idx
            ELSE /\ Continue
                 /\ game' = game
       ELSE /\ pc' = "filter"
            /\ UNCHANGED <<game, idx>>
    /\ UNCHANGED <<elements, timezone, includeUpcoming, clock,
                   isCurrentlyFree, hasUpcomingFree, games, origin, err>>
    /\ UNCHANGED <<upstreamCalls, handlerVars>>
    /\ UNCHANGED <<concVars, storeVars, history>>

UpcomingFilter ==
    /\ pc = "filter"
    /\ IF ~includeUpcoming /\ game.Status = "coming soon"
       THEN Continue
       ELSE /\ pc' = "fallback"
            /\ idx' = idx
    /\ UNCHANGED <<elements, timezone, includeUpcoming, clock, game,
                   isCurrentlyFree, hasUpcomingFree, games, origin, err>>
    /\ UNCHANGED <<upstreamCalls, handlerVars>>
    /\ UNCHANGED <<concVars, storeVars, history>>

FallbackUpgrade ==
    /\ pc = "fallback"
    /\ game' = IF NeedsFallback(game)
               THEN FallbackDates(element.PromotionalOffers, game, timezone)
               ELSE game
    /\ pc' = "guard"
    /\ UNCHANGED <<elements, timezone, includeUpcoming, clock, idx,
                   isCurrentlyFree, hasUpcomingFree, games, origin, err>>
    /\ UNCHANGED <<upstreamCalls, handlerVars>>
    /\ UNCHANGED <<concVars, storeVars, history>>

(***************************************************************************)
(* games = append(games, game).                                            *)
(***************************************************************************)
AppendRecord_UniqueTitle(list, g) ==
    IF \E k \in 1..Len(list) : list[k].Title = g.Title THEN list ELSE list \o <<g>>

AppendRecord(list, g) == list \o <<g>>

AppendGame ==
    /\ pc = "guard"
    /\ game' = MarkUnknown(game)
    /\ games' = AppendRecord(games, MarkUnknown(game))
    /\ origin' = origin \o <<idx>>
    /\ Continue
    /\ UNCHANGED <<elements, timezone, includeUpcoming, clock,
                   isCurrentlyFree, hasUpcomingFree, err>>
    /\ UNCHANGED <<upstreamCalls, handlerVars>>
    /\ UNCHANGED <<concVars, storeVars, history>>

Next ==
    \/ FetchOk
    \/ FetchFail
    \/ NextElement
    \/ Return
    \/ ScanCurrent
    \/ ScanUpcoming
    \/ PriceCheck
    \/ UpcomingFilter
    \/ FallbackUpgrade
    \/ AppendGame

Spec == Init /\ [][Next]_vars

SpecEntry == InitEntry /\ [][Next]_vars

(***************************************************************************)
(* fetchFreeGames called with any timezone string: names of the tz         *)
(* database, UTC/GMT offsets, offsets followed by other characters,        *)
(* strings that are neither.                                               *)
(***************************************************************************)
TzGMTMinus5 == <<"G", "M", "T", "-", "5">>

TzUTCPlus10 == <<"U", "T", "C", "+", "1", "0">>

TzUTC3 == <<"U", "T", "C", "3">>

TzLowerUtc == <<"u", "t", "c", "+", "3">>

TzUTCHalfHour == <<"U", "T", "C", "+", "5", ":", "3", "0">>

TzUTCPlus3abc == <<"U", "T", "C", "+", "3", "a", "b", "c">>

TzUTCabc == <<"U", "T", "C", "a", "b", "c">>

TzUTCSign == <<"U", "T", "C", "+">>

ZoneStrings ==
    { <<>>, TzUTC, TzManila, TzUTCPlus3, TzUTCPlus8, TzMars, TzGMTMinus5, TzUTCPlus10, TzUTC3,
      TzLowerUtc, TzUTCHalfHour, TzUTCPlus3abc, TzUTCabc, TzUTCSign }

InitZone ==
    /\ elements \in SeqsUpTo(SampleEntries, MaxElements)
    /\ timezone \in ZoneStrings
    /\ includeUpcoming \in BOOLEAN
    /\ pc = "fetch"
    /\ InitFetch
    /\ route = "none"
    /\ webhookURL = ""
    /\ query = NoQuery
    /\ sendNotification = FALSE
    /\ posts = <<>>
    /\ sendErr = "unset"
    /\ response = NoResponse
    /\ logs = <<>>

SpecZone == InitZone /\ [][Next]_vars

(***************************************************************************)
(* fetchFreeGames on one entry with any texts, key images and mappings.    *)
(***************************************************************************)
MaxImages == 2

MaxMappings == 2

KeyImages ==
    { KeyImage("Other", "a"), KeyImage("Thumbnail", "b"),
      KeyImage("DieselGameBox", "c"), KeyImage("thumbnail", "d") }

SlugFoo == <<"f", "o", "o">>

SlugBar == <<"b", "a", "r">>

Mapping(slug) == [PageSlug |-> slug, PageType |-> "productHome"]

Mappings == { Mapping(<<>>), Mapping(SlugFoo), Mapping(SlugBar) }

InitMeta ==
    /\ \E images \in SeqsUpTo(KeyImages, MaxImages),
          offers \in SeqsUpTo(Mappings, MaxMappings),
          catalog \in SeqsUpTo(Mappings, MaxMappings) :
          elements = << [Entry(OneOffer(Free100), <<>>, PriceZero) EXCEPT
                            !.Description = "about A",
                            !.Seller = "Epic Games",
                            !.KeyImages = images,
                            !.OfferMappings = offers,
                            !.CatalogMappings = catalog] >>
    /\ timezone = TzUTC
    /\ includeUpcoming = TRUE
    /\ pc = "fetch"
    /\ InitFetch
    /\ route = "none"
    /\ webhookURL = ""
    /\ query = NoQuery
    /\ sendNotification = FALSE
    /\ posts = <<>>
    /\ sendErr = "unset"
    /\ response = NoResponse
    /\ logs = <<>>

SpecMeta == InitMeta /\ [][Next]_vars

(***************************************************************************)
(* fetchFreeGames called again and again in one process, each call with    *)
(* its own upstream response, parameters and current time.  history keeps  *)
(* what the earlier calls were given and what they returned.               *)
(***************************************************************************)
MaxCalls == 3

RepeatResponses ==
    { << Titled("A", Entry(OneOffer(Free100), <<>>, PricePaid)),
         Titled("B", Entry(<<>>, OneOffer(Free100), PriceZero)) >>,
      << Titled("C", Entry(<<>>, <<>>, PriceFreeWord)) >> }

Clocks == {ClockStart, ClockStart + SecondsPerDay}

\* var games []Game at the start of a call.
FreshGames_Kept == games

FreshGames == <<>>

InitRepeat ==
    /\ elements \in RepeatResponses
    /\ timezone = TzUTC
    /\ includeUpcoming \in BOOLEAN
    /\ pc = "fetch"
    /\ InitFetch
    /\ route = "none"
    /\ webhookURL = ""
    /\ query = NoQuery
    /\ sendNotification = FALSE
    /\ posts = <<>>
    /\ sendErr = "unset"
    /\ response = NoResponse
    /\ logs = <<>>

CallAgain ==
    /\ pc = "return"
    /\ Len(history) < MaxCalls - 1
    /\ history' = Append(history,
                         [elements |-> elements, includeUpcoming |-> includeUpcoming,
                          timezone |-> timezone, now |-> clock,
                          err |-> err, games |-> games])
    /\ elements' \in RepeatResponses
    /\ includeUpcoming' \in BOOLEAN
    /\ clock' \in Clocks
    /\ games' = FreshGames
    /\ origin' = <<>>
    /\ err' = NoError
    /\ idx' = 1
    /\ upstreamCalls' = 0
    /\ pc' = "fetch"
    /\ UNCHANGED <<timezone, game, isCurrentlyFree, hasUpcomingFree,
                   handlerVars, storeVars, concVars>>

NextRepeat ==
    \/ FetchOk
    \/ FetchFail
    \/ NextElement
    \/ Return
    \/ ScanCurrent
    \/ ScanUpcoming
    \/ PriceCheck
    \/ UpcomingFilter
    \/ FallbackUpgrade
    \/ AppendGame
    \/ CallAgain

SpecRepeat == InitRepeat /\ [][NextRepeat]_vars

(***************************************************************************)
(* discord.go: the webhook message built from a list of games.             *)
(***************************************************************************)
MaxEmbeds == 10

ColorDefault == 30962

ColorFree == 3066993

ColorComingSoon == 15844367

Field(name, value, inline) == [Name |-> name, Value |-> value, Inline |-> inline]

createGameEmbed(g, now) ==
    LET color == IF g.Status = "free" THEN ColorFree
                 ELSE IF g.Status = "coming soon" THEN ColorComingSoon
                 ELSE ColorDefault
        publisher == IF g.Publisher # ""
                     THEN << Field("Publisher", g.Publisher, TRUE) >>
                     ELSE << >>
        statusText == IF g.Status = "coming soon" THEN "Coming Soon" ELSE "Currently Free"
        status == << Field("Status", statusText, TRUE) >>
        from == IF g.StartDate # Unknown
                THEN << Field("Available From", g.StartDate, FALSE) >>
                ELSE << >>
        until == IF g.EndDate # Unknown
                 THEN << Field("Available Until", g.EndDate, FALSE) >>
                 ELSE << >>
        precisionText == CASE g.DatePrecision = "exact" -> "Dates are exact"
                           [] g.DatePrecision = "estimated" -> "Dates are estimated"
                           [] g.DatePrecision = "unknown" -> "Dates are unknown"
                           [] OTHER -> ""
    IN  [Title |-> g.Title,
         Description |-> g.Description,
         URL |-> g.URL,
         Color |-> color,
         Timestamp |-> Rfc3339(now),
         Fields |-> publisher \o status \o from \o until,
         Thumbnail |-> g.ImageURL,
         Footer |-> precisionText]

\* The loop index i counts from 0.
EmbedLimitReached_Eleven(i) == i > MaxEmbeds

EmbedLimitReached(i) == i >= MaxEmbeds

RECURSIVE AddEmbeds(_, _, _, _)
AddEmbeds(list, i, embeds, now) ==
    IF i >= Len(list) \/ EmbedLimitReached(i)
    THEN embeds
    ELSE AddEmbeds(list, i + 1, Append(embeds, createGameEmbed(list[i + 1], now)), now)

WebhookMessage(list, now) ==
    [Content |-> "Free Games from Epic Games Store",
     Embeds |-> AddEmbeds(list, 0, << >>, now)]

NothingToSend_Never(list) == FALSE

NothingToSend(list) == Len(list) = 0

\* What the webhook request can come to, and the error returned for it.
WebhookOutcomes == {"2xx", "transport error", "non-2xx"}

SendResult(outcome) ==
    CASE outcome = "2xx" -> "nil"
      [] outcome = "transport error" -> "error sending webhook request"
      [] outcome = "non-2xx" -> "Discord webhook returned non-2xx status code"

SendFailed_Never(e) == FALSE

SendFailed(e) == e # "nil"

\* Where SendDiscordNotification goes after the webhook request: it returns.
OnSendResult_Retry(e) == IF SendFailed(e) THEN "send" ELSE "sent"

OnSendResult(e) == "sent"

SendNothing ==
    /\ pc = "send"
    /\ NothingToSend(games)
    /\ sendErr' = "nil"
    /\ pc' = "sent"
    /\ UNCHANGED <<elements, timezone, includeUpcoming, clock, idx, game,
                   isCurrentlyFree, hasUpcomingFree, games, origin, err,
                   upstreamCalls, route, webhookURL, query,
                   sendNotification, posts, response, logs>>
    /\ UNCHANGED <<concVars, storeVars, history>>

SendPost ==
    /\ pc = "send"
    /\ ~NothingToSend(games)
    /\ posts' = Append(posts, WebhookMessage(games, clock))
    /\ \E outcome \in WebhookOutcomes :
          /\ sendErr' = SendResult(outcome)
          /\ pc' = OnSendResult(SendResult(outcome))
    /\ UNCHANGED <<elements, timezone, includeUpcoming, clock, idx, game,
                   isCurrentlyFree, hasUpcomingFree, games, origin, err,
                   upstreamCalls, route, webhookURL, query,
                   sendNotification, response, logs>>
    /\ UNCHANGED <<concVars, storeVars, history>>

(***************************************************************************)
(* freeGamesHandler: GET /api/free-games.                                  *)
(***************************************************************************)
IncludeUpcomingOf(upcoming) ==
    IF upcoming # "" /\ ParseBool(upcoming).ok THEN ParseBool(upcoming).value ELSE TRUE

SendNotificationOf_AnyNotify(notify, url) == url # ""

SendNotificationOf(notify, url) ==
    IF notify # ""
    THEN IF ParseBool(notify).ok THEN ParseBool(notify).value /\ url # "" ELSE FALSE
    ELSE url # ""

ApiErrorResponse_Success(e) ==
    [Status |-> StatusOK, Kind |-> "json", Success |-> TRUE, Count |-> 0,
     Data |-> <<>>, Message |-> <<>>]

ApiErrorResponse(e) ==
    [Status |-> StatusInternalServerError, Kind |-> "json", Success |-> FALSE,
     Count |-> 0, Data |-> <<>>, Message |-> <<"Error fetching games", e>>]

ApiResponse(list) ==
    [Status |-> StatusOK, Kind |-> "json", Success |-> TRUE, Count |-> Len(list),
     Data |-> list, Message |-> <<>>]

\* The variables no caller of fetchFreeGames writes.
fetchLocals == <<elements, timezone, clock, idx, game, isCurrentlyFree,
                 hasUpcomingFree, games, origin, err, upstreamCalls>>

ApiParseQuery ==
    /\ pc = "request"
    /\ route = "api"
    /\ includeUpcoming' = IncludeUpcomingOf(query.upcoming)
    /\ sendNotification' = SendNotificationOf(query.notify, webhookURL)
    /\ pc' = "fetch"
    /\ UNCHANGED fetchLocals
    /\ UNCHANGED <<route, webhookURL, query, posts, sendErr, response, logs>>
    /\ UNCHANGED <<concVars, storeVars, history>>

ApiFetchError ==
    /\ pc = "return"
    /\ route = "api"
    /\ err # NoError
    /\ response' = ApiErrorResponse(err)
    /\ pc' = "done"
    /\ UNCHANGED fetchLocals
    /\ UNCHANGED <<includeUpcoming, route, webhookURL, query, sendNotification,
                   posts, sendErr, logs>>
    /\ UNCHANGED <<concVars, storeVars, history>>

ApiFetched ==
    /\ pc = "return"
    /\ route = "api"
    /\ err = NoError
    /\ IF sendNotification
       THEN IF webhookURL # ""
            THEN pc' = "send" /\ logs' = logs
            ELSE /\ pc' = "respond"
                 /\ logs' = Append(logs, "Discord webhook URL not configured")
       ELSE pc' = "respond" /\ logs' = logs
    /\ UNCHANGED fetchLocals
    /\ UNCHANGED <<includeUpcoming, route, webhookURL, query, sendNotification,
                   posts, sendErr, response>>
    /\ UNCHANGED <<concVars, storeVars, history>>

SendLog(e) ==
    IF SendFailed(e) THEN "Error sending Discord notification"
    ELSE "Discord notification sent"

ApiSent ==
    /\ pc = "sent"
    /\ route = "api"
    /\ logs' = Append(logs, SendLog(sendErr))
    /\ pc' = "respond"
    /\ UNCHANGED fetchLocals
    /\ UNCHANGED <<includeUpcoming, route, webhookURL, query, sendNotification,
                   posts, sendErr, response>>
    /\ UNCHANGED <<concVars, storeVars, history>>

ApiRespond ==
    /\ pc = "respond"
    /\ route = "api"
    /\ response' = ApiResponse(games)
    /\ pc' = "done"
    /\ UNCHANGED fetchLocals
    /\ UNCHANGED <<includeUpcoming, route, webhookURL, query, sendNotification,
                   posts, sendErr, logs>>
    /\ UNCHANGED <<concVars, storeVars, history>>

(***************************************************************************)
(* main: the /notify route.                                                *)
(***************************************************************************)
NotifyResponse(list) ==
    [Status |-> StatusOK, Kind |-> "json", Success |-> TRUE, Count |-> 0,
     Data |-> <<>>, Message |-> <<"Notification sent for games", Len(list)>>]

NotifyRefuse ==
    /\ pc = "request"
    /\ route = "notify"
    /\ webhookURL = ""
    /\ response' = HttpError(<<"Discord webhook URL not configured">>,
                             StatusInternalServerError)
    /\ pc' = "done"
    /\ UNCHANGED fetchLocals
    /\ UNCHANGED <<includeUpcoming, route, webhookURL, query, sendNotification,
                   posts, sendErr, logs>>
    /\ UNCHANGED <<concVars, storeVars, history>>

NotifyStart ==
    /\ pc = "request"
    /\ route = "notify"
    /\ webhookURL # ""
    /\ includeUpcoming' = TRUE
    /\ pc' = "fetch"
    /\ UNCHANGED fetchLocals
    /\ UNCHANGED handlerVars
    /\ UNCHANGED <<concVars, storeVars, history>>

NotifyFetchError ==
    /\ pc = "return"
    /\ route = "notify"
    /\ err # NoError
    /\ response' = HttpError(<<"Error fetching games", err>>, StatusInternalServerError)
    /\ pc' = "done"
    /\ UNCHANGED fetchLocals
    /\ UNCHANGED <<includeUpcoming, route, webhookURL, query, sendNotification,
                   posts, sendErr, logs>>
    /\ UNCHANGED <<concVars, storeVars, history>>

NotifyFetched ==
    /\ pc = "return"
    /\ route = "notify"
    /\ err = NoError
    /\ pc' = "send"
    /\ UNCHANGED fetchLocals
    /\ UNCHANGED <<includeUpcoming, handlerVars>>
    /\ UNCHANGED <<concVars, storeVars, history>>

NotifySent ==
    /\ pc = "sent"
    /\ route = "notify"
    /\ response' = IF SendFailed(sendErr)
                   THEN HttpError(<<"Error sending Discord notification", sendErr>>,
                                  StatusInternalServerError)
                   ELSE NotifyResponse(games)
    /\ pc' = "done"
    /\ UNCHANGED fetchLocals
    /\ UNCHANGED <<includeUpcoming, route, webhookURL, query, sendNotification,
                   posts, sendErr, logs>>
    /\ UNCHANGED <<concVars, storeVars, history>>

(***************************************************************************)
(* setupCronJob: one run of the scheduled job.                             *)
(***************************************************************************)
CronRun ==
    /\ pc = "request"
    /\ route = "cron"
    /\ logs' = Append(logs, "Running scheduled free games check...")
    /\ includeUpcoming' = TRUE
    /\ pc' = "fetch"
    /\ UNCHANGED fetchLocals
    /\ UNCHANGED <<route, webhookURL, query, sendNotification, posts, sendErr, response>>
    /\ UNCHANGED <<concVars, storeVars, history>>

CronFetchError ==
    /\ pc = "return"
    /\ route = "cron"
    /\ err # NoError
    /\ logs' = Append(logs, "Error fetching free games")
    /\ pc' = "done"
    /\ UNCHANGED fetchLocals
    /\ UNCHANGED <<includeUpcoming, route, webhookURL, query, sendNotification,
                   posts, sendErr, response>>
    /\ UNCHANGED <<concVars, storeVars, history>>

CronFetched ==
    /\ pc = "return"
    /\ route = "cron"
    /\ err = NoError
    /\ logs' = Append(logs, "Found free game(s)")
    /\ pc' = IF webhookURL # "" THEN "send" ELSE "done"
    /\ UNCHANGED fetchLocals
    /\ UNCHANGED <<includeUpcoming, route, webhookURL, query, sendNotification,
                   posts, sendErr, response>>
    /\ UNCHANGED <<concVars, storeVars, history>>

CronSent ==
    /\ pc = "sent"
    /\ route = "cron"
    /\ logs' = Append(logs, SendLog(sendErr))
    /\ pc' = "done"
    /\ UNCHANGED fetchLocals
    /\ UNCHANGED <<includeUpcoming, route, webhookURL, query, sendNotification,
                   posts, sendErr, response>>
    /\ UNCHANGED <<concVars, storeVars, history>>

(***************************************************************************)
(* setupCronJob: the scheduler fires the job again and again.  Each firing *)
(* is a new call of the job function, with its own locals; the log and     *)
(* the webhook's inbox go on from one firing to the next.                  *)
(***************************************************************************)
MaxFirings == 3

CronResponses ==
    { <<>>,
      << Titled("A", Entry(OneOffer(Free100), <<>>, PricePaid)) >> }

Firings == Cardinality({ k \in 1..Len(logs) : logs[k] = "Running scheduled free games check..." })

\* Whether the scheduler fires the job again after a firing that ended with
\* these errors: the job function only returns, the scheduler goes on.
Rearmed_UntilError(fetchErr, notifyErr) ==
    fetchErr = NoError /\ notifyErr \in {"unset", "nil"}

Rearmed(fetchErr, notifyErr) == TRUE

CronNextFiring ==
    /\ pc = "done"
    /\ route = "cron"
    /\ Firings < MaxFirings
    /\ Rearmed(err, sendErr)
    /\ elements' \in CronResponses
    /\ pc' = "request"
    /\ idx' = 1
    /\ games' = <<>>
    /\ origin' = <<>>
    /\ err' = NoError
    /\ sendErr' = "unset"
    /\ UNCHANGED <<timezone, includeUpcoming, clock, game, isCurrentlyFree,
                   hasUpcomingFree, upstreamCalls, route, webhookURL, query,
                   sendNotification, posts, response, logs>>
    /\ UNCHANGED <<concVars, storeVars, history>>

InitCron ==
    /\ elements \in CronResponses
    /\ route = "cron"
    /\ webhookURL \in WebhookURLs
    /\ query = NoQuery
    /\ timezone = TzUTC
    /\ includeUpcoming = TRUE
    /\ sendNotification = FALSE
    /\ pc = "request"
    /\ InitFetch
    /\ posts = <<>>
    /\ sendErr = "unset"
    /\ response = NoResponse
    /\ logs = <<>>

NextCron ==
    \/ FetchOk
    \/ FetchFail
    \/ NextElement
    \/ Return
    \/ ScanCurrent
    \/ ScanUpcoming
    \/ PriceCheck
    \/ UpcomingFilter
    \/ FallbackUpgrade
    \/ AppendGame
    \/ SendNothing
    \/ SendPost
    \/ CronRun
    \/ CronFetchError
    \/ CronFetched
    \/ CronSent
    \/ CronNextFiring

SpecCron == InitCron /\ [][NextCron]_vars

(***************************************************************************)
(* One invocation of the program: a request to a route or a run of the     *)
(* scheduled job, on a server started with any configuration.              *)
(***************************************************************************)
MaxRecords == 12

Routes == {"api", "notify", "cron"}

LongEntry(k) ==
    Titled(ToString(k),
           IF k % 2 = 1
           THEN Entry(OneOffer(Free100), <<>>, PricePaid)
           ELSE Entry(<<>>, OneOffer(Free100), PriceZero))

LongList(n) == [k \in 1..n |-> LongEntry(k)]

InitHandler ==
    /\ \/ /\ elements \in SeqsUpTo(SampleEntries, MaxElements)
          /\ route \in Routes
          /\ webhookURL \in WebhookURLs
          /\ query \in IF route = "api" THEN Queries ELSE {NoQuery}
       \/ /\ \E n \in (MaxEmbeds - 1)..MaxRecords : elements = LongList(n)
          /\ route \in Routes
          /\ webhookURL \in WebhookURLs \ {""}
          /\ query = NoQuery
    /\ timezone \in Timezones
    /\ includeUpcoming = TRUE
    /\ sendNotification = FALSE
    /\ pc = "request"
    /\ InitFetch
    /\ posts = <<>>
    /\ sendErr = "unset"
    /\ response = NoResponse
    /\ logs = <<>>

NextHandler ==
    \/ FetchOk
    \/ FetchFail
    \/ NextElement
    \/ Return
    \/ ScanCurrent
    \/ ScanUpcoming
    \/ PriceCheck
    \/ UpcomingFilter
    \/ FallbackUpgrade
    \/ AppendGame
    \/ SendNothing
    \/ SendPost
    \/ ApiParseQuery
    \/ ApiFetchError
    \/ ApiFetched
    \/ ApiSent
    \/ ApiRespond
    \/ NotifyRefuse
    \/ NotifyStart
    \/ NotifyFetchError
    \/ NotifyFetched
    \/ NotifySent
    \/ CronRun
    \/ CronFetchError
    \/ CronFetched
    \/ CronSent

SpecHandler == InitHandler /\ [][NextHandler]_vars

(***************************************************************************)
(* Several invocations at the same time: net/http serves each request in   *)
(* a goroutine of its own and the scheduler runs each tick of the job in   *)
(* one.  The configuration (timezone, webhookURL) is written before the    *)
(* server starts and only read afterwards; everything else an invocation   *)
(* touches is a local of freeGamesHandler, of the /notify closure, of the  *)
(* job or of fetchFreeGames.  A step is the work of one invocation between *)
(* two accesses to its list of games or to the webhook.                    *)
(***************************************************************************)
NumInvocations == 2

Invocations == 1..NumInvocations

\* One iteration of the loop of fetchFreeGames over the upstream entries,
\* stage after stage.
AfterCurrent(e, tz) ==
    ScanOffers(e.PromotionalOffers,
               [found |-> FALSE, game |-> InitialGame(e)],
               "free", tz)

Flagged(free, st) == [free |-> free, coming |-> st.found, game |-> st.game]

AfterUpcoming(e, st, upcoming, tz) ==
    IF ShouldScanUpcoming(st.found, upcoming)
    THEN Flagged(st.found,
                 ScanOffers(e.UpcomingPromotionalOffers,
                            [found |-> FALSE, game |-> st.game], "coming soon", tz))
    ELSE Flagged(st.found, [found |-> FALSE, game |-> st.game])

AfterPrice(e, st, tz, now) ==
    IF ~st.free /\ ~st.coming
    THEN IF IsFreePrice(e.DiscountPrice)
         THEN [keep |-> TRUE, game |-> EstimatedGame(st.game, tz, now)]
         ELSE [keep |-> FALSE, game |-> st.game]
    ELSE [keep |-> TRUE, game |-> st.game]

AfterFilter(r, upcoming) ==
    IF r.keep /\ ~upcoming /\ r.game.Status = "coming soon"
    THEN [r EXCEPT !.keep = FALSE]
    ELSE r

AfterFallback(e, r, tz) ==
    IF NeedsFallback(r.game)
    THEN [r EXCEPT !.game = FallbackDates(e.PromotionalOffers, r.game, tz)]
    ELSE r

AfterGuard(r) == [r EXCEPT !.game = MarkUnknown(r.game)]

ProcessEntry(e, upcoming, tz, now) ==
    AfterGuard(
        AfterFallback(e,
            AfterFilter(
                AfterPrice(e, AfterUpcoming(e, AfterCurrent(e, tz), upcoming, tz), tz, now),
                upcoming),
            tz))

\* The list an invocation appends to: var games []Game, a local of the call.
GamesBuffer_Shared(i) == 1

GamesBuffer(i) == i

ConcResponses ==
    { <<>>,
      LongList(2),
      << Titled("C", Entry(<<>>, <<>>, PriceFreeWord)) >> }

Idle(r) ==
    [route |-> r, query |-> NoQuery, pc |-> "request", elements |-> <<>>,
     includeUpcoming |-> TRUE, sendNotification |-> FALSE, idx |-> 1,
     err |-> NoError, sendErr |-> "unset", response |-> NoResponse]

\* The start of a handler or of the job, up to the call of fetchFreeGames.
Begun(l, url) ==
    CASE l.route = "api" ->
            [l EXCEPT !.includeUpcoming = IncludeUpcomingOf(l.query.upcoming),
                      !.sendNotification = SendNotificationOf(l.query.notify, url),
                      !.pc = "fetch"]
      [] l.route = "notify" ->
            IF url = ""
            THEN [l EXCEPT !.response = HttpError(<<"Discord webhook URL not configured">>,
                                                  StatusInternalServerError),
                           !.pc = "done"]
            ELSE [l EXCEPT !.includeUpcoming = TRUE, !.pc = "fetch"]
      [] l.route = "cron" -> [l EXCEPT !.includeUpcoming = TRUE, !.pc = "fetch"]

\* What the caller does with the result of fetchFreeGames.
Fetched(l, url) ==
    IF l.err # NoError
    THEN CASE l.route = "api" ->
                 [l EXCEPT !.response = ApiErrorResponse(l.err), !.pc = "done"]
           [] l.route = "notify" ->
                 [l EXCEPT !.response = HttpError(<<"Error fetching games", l.err>>,
                                                  StatusInternalServerError),
                           !.pc = "done"]
           [] l.route = "cron" -> [l EXCEPT !.pc = "done"]
    ELSE CASE l.route = "api" ->
                 [l EXCEPT !.pc = IF l.sendNotification /\ url # ""
                                  THEN "send" ELSE "respond"]
           [] l.route = "notify" -> [l EXCEPT !.pc = "send"]
           [] l.route = "cron" ->
                 [l EXCEPT !.pc = IF url # "" THEN "send" ELSE "done"]

\* What the caller does after SendDiscordNotification, or without it.
Answered(l, list) ==
    CASE l.route = "api" -> [l EXCEPT !.response = ApiResponse(list), !.pc = "done"]
      [] l.route = "notify" ->
            [l EXCEPT !.response =
                          IF SendFailed(l.sendErr)
                          THEN HttpError(<<"Error sending Discord notification", l.sendErr>>,
                                         StatusInternalServerError)
                          ELSE NotifyResponse(list),
                      !.pc = "done"]
      [] l.route = "cron" -> [l EXCEPT !.pc = "done"]

\* The invocations are numbered in the order of their routes: the numbers
\* only tell them apart.
RouteOrder(r) == CASE r = "api" -> 1 [] r = "cron" -> 2 [] r = "notify" -> 3

InitConcurrent ==
    /\ inv \in [Invocations -> {Idle(r) : r \in Routes}]
    /\ \A i \in Invocations, j \in Invocations :
          i < j => RouteOrder(inv[i].route) <= RouteOrder(inv[j].route)
    /\ buffers = [b \in Invocations |-> <<>>]
    /\ outbox = <<>>
    /\ webhookURL \in WebhookURLs
    /\ timezone = TzUTCPlus3
    /\ clock = ClockStart
    /\ elements = <<>>
    /\ includeUpcoming = TRUE
    /\ pc = "done"
    /\ idx = 1
    /\ game = NewGame
    /\ isCurrentlyFree = FALSE
    /\ hasUpcomingFree = FALSE
    /\ games = <<>>
    /\ origin = <<>>
    /\ err = NoError
    /\ upstreamCalls = 0
    /\ history = <<>>
    /\ countryCode = "PH"
    /\ locale = "en-PH"
    /\ route = "none"
    /\ query = NoQuery
    /\ sendNotification = FALSE
    /\ posts = <<>>
    /\ sendErr = "unset"
    /\ response = NoResponse
    /\ logs = <<>>

Begin(i) ==
    /\ inv[i].pc = "request"
    /\ inv' = [inv EXCEPT ![i] = Begun(@, webhookURL)]
    /\ UNCHANGED <<soloVars, buffers, outbox>>

ReceiveResponse(i) ==
    /\ inv[i].pc = "fetch"
    /\ \E r \in ConcResponses :
          inv' = [inv EXCEPT ![i].elements = r, ![i].idx = 1, ![i].pc = "loop"]
    /\ buffers' = [buffers EXCEPT ![GamesBuffer(i)] = <<>>]
    /\ UNCHANGED <<soloVars, outbox>>

ReceiveError(i) ==
    /\ inv[i].pc = "fetch"
    /\ \E e \in FetchErrors :
          inv' = [inv EXCEPT ![i].err = e, ![i].pc = "return"]
    /\ UNCHANGED <<soloVars, buffers, outbox>>

Process(i) ==
    /\ inv[i].pc = "loop"
    /\ inv[i].idx <= Len(inv[i].elements)
    /\ LET r == ProcessEntry(inv[i].elements[inv[i].idx], inv[i].includeUpcoming,
                             timezone, clock)
       IN  buffers' = IF r.keep
                      THEN [buffers EXCEPT ![GamesBuffer(i)] = AppendRecord(@, r.game)]
                      ELSE buffers
    /\ inv' = [inv EXCEPT ![i].idx = @ + 1]
    /\ UNCHANGED <<soloVars, outbox>>

ReturnGames(i) ==
    /\ inv[i].pc = "loop"
    /\ inv[i].idx > Len(inv[i].elements)
    /\ inv' = [inv EXCEPT ![i].pc = "return"]
    /\ UNCHANGED <<soloVars, buffers, outbox>>

AfterFetch(i) ==
    /\ inv[i].pc = "return"
    /\ inv' = [inv EXCEPT ![i] = Fetched(@, webhookURL)]
    /\ UNCHANGED <<soloVars, buffers, outbox>>

Send(i) ==
    /\ inv[i].pc = "send"
    /\ IF NothingToSend(buffers[GamesBuffer(i)])
       THEN /\ inv' = [inv EXCEPT ![i].sendErr = "nil", ![i].pc = "sent"]
            /\ outbox' = outbox
       ELSE /\ outbox' = Append(outbox,
                                [from |-> i,
                                 message |-> WebhookMessage(buffers[GamesBuffer(i)], clock)])
            /\ \E outcome \in WebhookOutcomes :
                  inv' = [inv EXCEPT ![i].sendErr = SendResult(outcome),
                                     ![i].pc = OnSendResult(SendResult(outcome))]
    /\ UNCHANGED <<soloVars, buffers>>

Answer(i) ==
    /\ inv[i].pc \in {"sent", "respond"}
    /\ inv' = [inv EXCEPT ![i] = Answered(@, buffers[GamesBuffer(i)])]
    /\ UNCHANGED <<soloVars, buffers, outbox>>

NextConcurrent ==
    \/ \E i \in Invocations : Begin(i)
    \/ \E i \in Invocations : ReceiveResponse(i)
    \/ \E i \in Invocations : ReceiveError(i)
    \/ \E i \in Invocations : Process(i)
    \/ \E i \in Invocations : ReturnGames(i)
    \/ \E i \in Invocations : AfterFetch(i)
    \/ \E i \in Invocations : Send(i)
    \/ \E i \in Invocations : Answer(i)

SpecConcurrent == InitConcurrent /\ [][NextConcurrent]_vars

(***************************************************************************)
(* Vocabulary of the properties, stated on the upstream data and on the    *)
(* returned list.                                                          *)
(***************************************************************************)
Positions(list) ==
    UNION { { <<a, b>> : b \in 1..Len(list[a].PromotionalOffers) } : a \in 1..Len(list) }

SubAt(list, p) == list[p[1]].PromotionalOffers[p[2]]

Before(p, q) == p[1] < q[1] \/ (p[1] = q[1] /\ p[2] < q[2])

FreePositions(list) ==
    { p \in Positions(list) : SubAt(list, p).DiscountPercentage = 100 }

HasFree(list) == FreePositions(list) # {}

LastFree(list) ==
    SubAt(list, CHOOSE p \in FreePositions(list) :
                    \A q \in FreePositions(list) : q = p \/ Before(q, p))

BothEmpty(sub) == sub.StartDate = EmptyDate /\ sub.EndDate = EmptyDate

BothPresent(sub) == sub.StartDate # EmptyDate /\ sub.EndDate # EmptyDate

\* The offers whose sub-offer at index 0 has a start and an end date.
DatedOffers(list) ==
    { a \in 1..Len(list) :
        Len(list[a].PromotionalOffers) > 0 /\ BothPresent(list[a].PromotionalOffers[1]) }

FirstDated(list) ==
    list[CHOOSE a \in DatedOffers(list) : \A c \in DatedOffers(list) : a <= c].PromotionalOffers[1]

ZeroOrFreePrice(price) ==
    \/ price \in { <<"$", "0", ".", "0", "0">>, <<"0">>, <<>> }
    \/ \E k \in 1..(Len(price) - 3) :
          /\ price[k] \in {"f", "F"}
          /\ price[k + 1] \in {"r", "R"}
          /\ price[k + 2] \in {"e", "E"}
          /\ price[k + 3] \in {"e", "E"}

Processed(j) == j < idx

RecordsOf(j) == { k \in 1..Len(games) : origin[k] = j }

Emitted(j) == RecordsOf(j) # {}

DatesOf(g, sub) ==
    /\ g.StartDate = formatDate(sub.StartDate, timezone)
    /\ g.EndDate = formatDate(sub.EndDate, timezone)

SevenDaysApart(g) ==
    /\ g.StartDate.kind = "formatted"
    /\ g.EndDate.kind = "formatted"
    /\ g.EndDate.zone = g.StartDate.zone
    /\ g.EndDate.t = g.StartDate.t + 7 * 24 * 60 * 60

\* The sub-offer the promotion scans settle on, when they match one.
CurrentMatch(e) == HasFree(e.PromotionalOffers)

UpcomingMatch(e) ==
    ~HasFree(e.PromotionalOffers) /\ includeUpcoming /\ HasFree(e.UpcomingPromotionalOffers)

(***************************************************************************)
(* C1 (as stated): every entry with a 100% sub-offer among its current     *)
(* promotions yields a record with status "free" and precision "exact",    *)
(* whatever the dates of that sub-offer.                                   *)
(***************************************************************************)
C1_CurrentFreeIsExact ==
    \A j \in 1..Len(elements) :
        (Processed(j) /\ HasFree(elements[j].PromotionalOffers))
        => \E k \in RecordsOf(j) :
              games[k].Status = "free" /\ games[k].DatePrecision = "exact"

(***************************************************************************)
(* C1 (amended): every entry with a 100% sub-offer among its current       *)
(* promotions yields a record with status "free"; its precision is         *)
(* "exact", except that it is "unknown" when the last 100% sub-offer has   *)
(* both dates empty and no current offer has a first sub-offer with both   *)
(* dates non-empty.                                                        *)
(***************************************************************************)
C1_CurrentFreeIsFree ==
    \A j \in 1..Len(elements) :
        (Processed(j) /\ HasFree(elements[j].PromotionalOffers))
        => LET cur == elements[j].PromotionalOffers
               undated == BothEmpty(LastFree(cur)) /\ DatedOffers(cur) = {}
           IN  /\ Cardinality(RecordsOf(j)) = 1
               /\ \A k \in RecordsOf(j) :
                     /\ games[k].Status = "free"
                     /\ games[k].DatePrecision = IF undated THEN "unknown" ELSE "exact"

C1_Witness ==
    /\ pc = "return"
    /\ \E j \in 1..Len(elements) :
          /\ HasFree(elements[j].PromotionalOffers)
          /\ HasFree(elements[j].UpcomingPromotionalOffers)
          /\ \E k \in RecordsOf(j) :
                games[k].Status = "free" /\ games[k].DatePrecision = "exact"

(***************************************************************************)
(* C2: with includeUpcoming set, every entry with no 100% sub-offer among  *)
(* its current promotions and one among its upcoming promotions yields a   *)
(* record with status "coming soon", whatever its price.                   *)
(***************************************************************************)
C2_UpcomingFreeIsComingSoon ==
    \A j \in 1..Len(elements) :
        (/\ Processed(j)
         /\ includeUpcoming
         /\ ~HasFree(elements[j].PromotionalOffers)
         /\ HasFree(elements[j].UpcomingPromotionalOffers))
        => /\ Cardinality(RecordsOf(j)) = 1
           /\ \A k \in RecordsOf(j) : games[k].Status = "coming soon"

C2_Witness ==
    /\ pc = "return"
    /\ includeUpcoming
    /\ \E j \in 1..Len(elements) :
          /\ ~HasFree(elements[j].PromotionalOffers)
          /\ HasFree(elements[j].UpcomingPromotionalOffers)
          /\ ZeroOrFreePrice(elements[j].DiscountPrice)
          /\ \E k \in RecordsOf(j) : games[k].Status = "coming soon"

(***************************************************************************)
(* C3 (as stated): with includeUpcoming unset, an entry whose only 100%    *)
(* sub-offers are upcoming yields no record, whatever its price.           *)
(***************************************************************************)
C3_UpcomingOnlyIsAbsent ==
    \A j \in 1..Len(elements) :
        (/\ Processed(j)
         /\ ~includeUpcoming
         /\ ~HasFree(elements[j].PromotionalOffers)
         /\ HasFree(elements[j].UpcomingPromotionalOffers))
        => ~Emitted(j)

(***************************************************************************)
(* C3 (amended): with includeUpcoming unset, an entry whose only 100%      *)
(* sub-offers are upcoming yields no record unless its price is "$0.00",   *)
(* "0", empty or contains "free"; with such a price it yields one record,  *)
(* of status "free" and never "coming soon".                               *)
(***************************************************************************)
C3_UpcomingOnlyFollowsPrice ==
    \A j \in 1..Len(elements) :
        (/\ Processed(j)
         /\ ~includeUpcoming
         /\ ~HasFree(elements[j].PromotionalOffers)
         /\ HasFree(elements[j].UpcomingPromotionalOffers))
        => /\ Emitted(j) <=> ZeroOrFreePrice(elements[j].DiscountPrice)
           /\ \A k \in RecordsOf(j) : games[k].Status = "free"

C3_Witness ==
    /\ pc = "return"
    /\ ~includeUpcoming
    /\ \E j \in 1..Len(elements) :
          /\ ~HasFree(elements[j].PromotionalOffers)
          /\ HasFree(elements[j].UpcomingPromotionalOffers)
          /\ ~ZeroOrFreePrice(elements[j].DiscountPrice)
          /\ ~Emitted(j)

(***************************************************************************)
(* C4 (as stated): every entry with no 100% sub-offer, current or          *)
(* upcoming, and a price that is "$0.00", "0", empty or contains "free"    *)
(* yields a record with status "free", precision "estimated" and an end    *)
(* date seven days after its start date in the same zone, also when it     *)
(* carries current promotions of another discount.                         *)
(***************************************************************************)
C4_FreePriceIsEstimated ==
    \A j \in 1..Len(elements) :
        (/\ Processed(j)
         /\ ~HasFree(elements[j].PromotionalOffers)
         /\ ~HasFree(elements[j].UpcomingPromotionalOffers)
         /\ ZeroOrFreePrice(elements[j].DiscountPrice))
        => \E k \in RecordsOf(j) :
              /\ games[k].Status = "free"
              /\ games[k].DatePrecision = "estimated"
              /\ SevenDaysApart(games[k])

(***************************************************************************)
(* C4 (amended): such an entry yields a record with status "free"; its     *)
(* precision is "estimated" with an end date seven days after the start    *)
(* date in the same zone, unless a current offer has a first sub-offer     *)
(* with both dates non-empty: then the precision is "exact" and the dates  *)
(* are those of the first such offer's first sub-offer.                    *)
(***************************************************************************)
C4_FreePriceIsEstimatedOrUpgraded ==
    \A j \in 1..Len(elements) :
        (/\ Processed(j)
         /\ ~HasFree(elements[j].PromotionalOffers)
         /\ ~HasFree(elements[j].UpcomingPromotionalOffers)
         /\ ZeroOrFreePrice(elements[j].DiscountPrice))
        => LET cur == elements[j].PromotionalOffers IN
           /\ Cardinality(RecordsOf(j)) = 1
           /\ \A k \in RecordsOf(j) :
                 /\ games[k].Status = "free"
                 /\ IF DatedOffers(cur) = {}
                    THEN games[k].DatePrecision = "estimated" /\ SevenDaysApart(games[k])
                    ELSE games[k].DatePrecision = "exact" /\ DatesOf(games[k], FirstDated(cur))

C4_Witness ==
    /\ pc = "return"
    /\ \E j \in 1..Len(elements) :
          /\ Positions(elements[j].PromotionalOffers) # {}
          /\ ~HasFree(elements[j].PromotionalOffers)
          /\ ~HasFree(elements[j].UpcomingPromotionalOffers)
          /\ \E k \in RecordsOf(j) :
                games[k].DatePrecision = "estimated" /\ SevenDaysApart(games[k])

(***************************************************************************)
(* C5: an entry with no 100% sub-offer, current or upcoming, and a price   *)
(* that is none of "$0.00", "0", empty or "free"-containing yields no      *)
(* record, for either value of includeUpcoming.                            *)
(***************************************************************************)
C5_PaidIsAbsent ==
    \A j \in 1..Len(elements) :
        (/\ Processed(j)
         /\ ~HasFree(elements[j].PromotionalOffers)
         /\ ~HasFree(elements[j].UpcomingPromotionalOffers)
         /\ ~ZeroOrFreePrice(elements[j].DiscountPrice))
        => ~Emitted(j)

C5_Witness ==
    /\ pc = "return"
    /\ \E j \in 1..Len(elements) :
          /\ Positions(elements[j].PromotionalOffers) # {}
          /\ Positions(elements[j].UpcomingPromotionalOffers) # {}
          /\ ~HasFree(elements[j].PromotionalOffers)
          /\ ~HasFree(elements[j].UpcomingPromotionalOffers)
          /\ ~ZeroOrFreePrice(elements[j].DiscountPrice)
          /\ ~Emitted(j)

(***************************************************************************)
(* C6: every returned record has status "free" or "coming soon" and        *)
(* precision "exact", "estimated" or "unknown"; neither is empty.          *)
(***************************************************************************)
C6_StatusAndPrecisionSet ==
    \A k \in 1..Len(games) :
        /\ games[k].Status \in {"free", "coming soon"}
        /\ games[k].DatePrecision \in {"exact", "estimated", "unknown"}

C6_Witness ==
    /\ pc = "return"
    /\ \E k \in 1..Len(games) :
          games[k].Status = "coming soon" /\ games[k].DatePrecision = "unknown"

(***************************************************************************)
(* C7: the precision label matches the provenance of the dates.  A record  *)
(* is "exact" only if its dates are those of a 100% sub-offer (current or  *)
(* upcoming) or of an offer's first sub-offer with both dates non-empty;   *)
(* it is "estimated" only if its status came from the price check, no      *)
(* 100% sub-offer was matched, and its dates are now and now + 7 days.     *)
(***************************************************************************)
C7_PrecisionMatchesProvenance ==
    \A k \in 1..Len(games) :
        LET g == games[k]
            e == elements[origin[k]]
            cur == e.PromotionalOffers
            up == e.UpcomingPromotionalOffers
            location == EstimateLocation(timezone)
        IN  /\ g.DatePrecision = "exact" =>
                 \/ \E p \in FreePositions(cur) : DatesOf(g, SubAt(cur, p))
                 \/ \E p \in FreePositions(up) : DatesOf(g, SubAt(up, p))
                 \/ \E a \in DatedOffers(cur) : DatesOf(g, cur[a].PromotionalOffers[1])
            /\ g.DatePrecision = "estimated" =>
                 /\ g.Status = "free"
                 /\ ZeroOrFreePrice(e.DiscountPrice)
                 /\ ~CurrentMatch(e)
                 /\ ~UpcomingMatch(e)
                 /\ g.StartDate = Formatted(clock + location.offset, location.name)
                 /\ SevenDaysApart(g)

C7_Witness ==
    /\ pc = "return"
    /\ \E k \in 1..Len(games) :
          /\ games[k].DatePrecision = "exact"
          /\ ~HasFree(elements[origin[k]].PromotionalOffers)
          /\ ~HasFree(elements[origin[k]].UpcomingPromotionalOffers)

(***************************************************************************)
(* C8: a record's precision is "unknown" exactly when no dates were        *)
(* resolved (the matched 100% sub-offer has both dates empty and, for      *)
(* status "free", no current offer has a dated first sub-offer), and then  *)
(* both dates are the literal "Unknown"; for "free" and "coming soon"      *)
(* alike.                                                                  *)
(***************************************************************************)
Unresolved(e) ==
    IF CurrentMatch(e)
    THEN BothEmpty(LastFree(e.PromotionalOffers)) /\ DatedOffers(e.PromotionalOffers) = {}
    ELSE UpcomingMatch(e) /\ BothEmpty(LastFree(e.UpcomingPromotionalOffers))

C8_UnknownIffUnresolved ==
    \A k \in 1..Len(games) :
        /\ games[k].DatePrecision = "unknown" <=> Unresolved(elements[origin[k]])
        /\ games[k].DatePrecision = "unknown"
              => games[k].StartDate = Unknown /\ games[k].EndDate = Unknown

C8_Witness ==
    /\ pc = "return"
    /\ \E k \in 1..Len(games) :
          /\ games[k].Status = "free"
          /\ games[k].DatePrecision = "unknown"
          /\ games[k].StartDate = Unknown
          /\ games[k].EndDate = Unknown

(***************************************************************************)
(* C9 (as stated): no returned record has an empty start date or an empty  *)
(* end date, also when a matched 100% sub-offer has exactly one of its     *)
(* dates empty.                                                            *)
(***************************************************************************)
C9_NoEmptyDate ==
    \A k \in 1..Len(games) :
        games[k].StartDate # EmptyDate /\ games[k].EndDate # EmptyDate

(***************************************************************************)
(* C10 (as stated): when the scanned promotions list holds several 100%    *)
(* sub-offers, the record's dates are those of the last one in iteration   *)
(* order, whatever its date strings.                                       *)
(***************************************************************************)
ScannedList(e) ==
    IF CurrentMatch(e) THEN e.PromotionalOffers ELSE e.UpcomingPromotionalOffers

SeveralMatches(e) ==
    (CurrentMatch(e) \/ UpcomingMatch(e)) /\ Cardinality(FreePositions(ScannedList(e))) >= 2

C10_LastMatchWins ==
    \A k \in 1..Len(games) :
        LET e == elements[origin[k]] IN
        SeveralMatches(e) => DatesOf(games[k], LastFree(ScannedList(e)))

(***************************************************************************)
(* C10 (amended): when the scanned promotions list holds several 100%      *)
(* sub-offers, the record's dates are those of the last one in iteration   *)
(* order unless both of its dates are empty; in that case a "free" record  *)
(* takes the dates of the first current offer whose first sub-offer has    *)
(* both dates non-empty, and failing that (or for "coming soon") both      *)
(* dates are "Unknown".                                                    *)
(***************************************************************************)
C10_LastDatedMatchWins ==
    \A k \in 1..Len(games) :
        LET e == elements[origin[k]]
            g == games[k]
            last == LastFree(ScannedList(e))
        IN  SeveralMatches(e) =>
              IF ~BothEmpty(last) THEN DatesOf(g, last)
              ELSE IF CurrentMatch(e) /\ DatedOffers(e.PromotionalOffers) # {}
                   THEN DatesOf(g, FirstDated(e.PromotionalOffers))
                   ELSE g.StartDate = Unknown /\ g.EndDate = Unknown

C10_Witness ==
    /\ pc = "return"
    /\ \E k \in 1..Len(games) :
          LET e == elements[origin[k]]
              list == ScannedList(e)
          IN  /\ SeveralMatches(e)
              /\ \E p \in FreePositions(list) :
                    /\ ~DatesOf(games[k], SubAt(list, p))
                    /\ DatesOf(games[k], LastFree(list))
                    /\ games[k].StartDate.kind = "formatted"


(***************************************************************************)
(* C11: the returned list is an order-preserving subsequence of the        *)
(* upstream entries: every record comes from one entry (it carries that    *)
(* entry's title), an entry yields at most one record, records stand in    *)
(* the order of their entries, an entry that qualifies is kept even when   *)
(* an earlier record has the same title, and a step of the function never  *)
(* changes or removes a record that is already in the list.                *)
(***************************************************************************)
Qualifies(e) ==
    CurrentMatch(e) \/ UpcomingMatch(e) \/ ZeroOrFreePrice(e.DiscountPrice)

IsSubsequence ==
    /\ Len(games) = Len(origin)
    /\ \A k \in 1..Len(games) :
          /\ origin[k] \in 1..Len(elements)
          /\ games[k].Title = elements[origin[k]].Title
    /\ \A k \in 1..(Len(games) - 1) : origin[k] < origin[k + 1]
    /\ \A j \in 1..Len(elements) :
          Processed(j) => (Emitted(j) <=> Qualifies(elements[j]))

EarlierRecordsKept ==
    \A k \in 1..Len(games) : Len(games') >= k /\ games'[k] = games[k]

C11_OrderPreservingSubsequence == [] IsSubsequence /\ [][EarlierRecordsKept]_vars

C11_Witness ==
    /\ pc = "return"
    /\ Len(games) = 2
    /\ games[1].Title = games[2].Title
    /\ games[1] # games[2]


(***************************************************************************)
(* Vocabulary of the properties of an invocation.                          *)
(***************************************************************************)
SendReturned == sendErr # "unset"

SendError == sendErr \notin {"unset", "nil"}

Finished == pc = "done"

CardsOf(list, n) == [k \in 1..n |-> createGameEmbed(list[k], clock)]

(***************************************************************************)
(* C12: when SendDiscordNotification has been called with a non-empty list *)
(* of n records, exactly one message has been posted, and its cards are    *)
(* the cards of the first min(n, 10) records, in the order of the list.    *)
(***************************************************************************)
C12_FirstTenCards ==
    (SendReturned /\ Len(games) > 0)
    => /\ Len(posts) = 1
       /\ posts[1].Embeds = CardsOf(games, Min(Len(games), 10))

C12_Witness ==
    /\ Finished
    /\ Len(games) > 10
    /\ Len(posts) = 1
    /\ Len(posts[1].Embeds) = 10
    /\ posts[1].Embeds[10].Title = "10"

(***************************************************************************)
(* C13: when the list of records is empty, SendDiscordNotification posts   *)
(* nothing and returns no error, whichever route or job called it.         *)
(***************************************************************************)
C13_EmptyListSendsNothing ==
    \A r \in Routes :
        (route = r /\ SendReturned /\ Len(games) = 0)
        => posts = <<>> /\ sendErr = "nil"

C13_Witness ==
    /\ Finished
    /\ route = "notify"
    /\ SendReturned
    /\ Len(elements) > 0
    /\ Len(games) = 0
    /\ posts = <<>>

(***************************************************************************)
(* C14: when the upstream call fails (transport error, status other than   *)
(* 200, undecodable body) fetchFreeGames returns an error and no record,   *)
(* and GET /api/free-games answers success = false, count = 0, no data and *)
(* a message that carries the error.                                       *)
(***************************************************************************)
C14_UpstreamFailure ==
    (pc \in {"return", "done"} /\ err # NoError)
    => /\ games = <<>>
       /\ (route = "api" /\ Finished)
          => /\ response.Kind = "json"
             /\ response.Success = FALSE
             /\ response.Count = 0
             /\ response.Data = <<>>
             /\ Len(response.Message) = 2
             /\ response.Message[2] = err

C14_Witness ==
    /\ Finished
    /\ route = "api"
    /\ err = "bad status"
    /\ Len(elements) > 0
    /\ response.Success = FALSE

(***************************************************************************)
(* C15 (as stated): on every path that sends a notification, a failed      *)
(* notification does not fail the invocation: a route still answers with   *)
(* success.                                                                *)
(***************************************************************************)
C15_SendFailureNeverFails ==
    (Finished /\ SendError /\ route \in {"api", "notify"})
    => response.Status = StatusOK /\ response.Success

(***************************************************************************)
(* C15 (amended): a failed notification does not fail GET /api/free-games, *)
(* which still answers with success and the records, nor the scheduled     *)
(* job, which logs the error and ends; the /notify route answers a failed  *)
(* notification with status 500 and the error.                             *)
(***************************************************************************)
C15_SendFailureFailsOnlyNotify ==
    (Finished /\ SendError)
    => /\ route = "api"
          => /\ response.Status = StatusOK
             /\ response.Success
             /\ response.Count = Len(games)
             /\ response.Data = games
       /\ route = "cron"
          => /\ response = NoResponse
             /\ logs[Len(logs)] = "Error sending Discord notification"
       /\ route = "notify"
          => /\ response.Status = StatusInternalServerError
             /\ response.Kind = "text"
             /\ response.Message[1] = "Error sending Discord notification"
             /\ response.Message[2] = sendErr

C15_Witness ==
    /\ Finished
    /\ SendError
    /\ route = "notify"
    /\ response.Status = StatusInternalServerError

(***************************************************************************)
(* C17: within one invocation the upstream catalog is called at most once  *)
(* and the webhook at most once, and after a call of either kind has       *)
(* failed no further call of that kind is made.                            *)
(***************************************************************************)
AtMostOneCall == upstreamCalls <= 1 /\ Len(posts) <= 1

NoRetry ==
    /\ err # NoError => upstreamCalls' = upstreamCalls
    /\ SendError => posts' = posts

C17_NoRetry == [] AtMostOneCall /\ [][NoRetry]_vars

C17_Witness ==
    /\ Finished
    /\ upstreamCalls = 1
    /\ Len(posts) = 1
    /\ SendError


(***************************************************************************)
(* Vocabulary of the properties of the timezone: the classes of timezone   *)
(* strings, and the dates of a record set against the upstream dates.      *)
(***************************************************************************)
IsIANA(tz) == LoadLocation(tz).ok

Prefixed(tz) ==
    Len(tz) >= 3 /\ SubSeq(tz, 1, 3) \in { <<"U", "T", "C">>, <<"G", "M", "T">> }

Remainder(tz) == SubSeq(tz, 4, Len(tz))

\* An optional sign followed by decimal digits and nothing else.
IsInteger(str) ==
    LET unsigned == IF str # <<>> /\ str[1] \in {"+", "-"}
                    THEN SubSeq(str, 2, Len(str)) ELSE str
    IN  unsigned # <<>> /\ \A k \in 1..Len(unsigned) : unsigned[k] \in Digits

RECURSIVE DecimalValue(_)
DecimalValue(str) ==
    IF str = <<>> THEN 0
    ELSE 10 * DecimalValue(SubSeq(str, 1, Len(str) - 1)) + DigitValue(str[Len(str)])

IntegerValue(str) ==
    IF str[1] = "-" THEN 0 - DecimalValue(SubSeq(str, 2, Len(str)))
    ELSE IF str[1] = "+" THEN DecimalValue(SubSeq(str, 2, Len(str)))
    ELSE DecimalValue(str)

OffsetString(tz) == ~IsIANA(tz) /\ Prefixed(tz) /\ IsInteger(Remainder(tz))

BadOffsetString(tz) ==
    ~IsIANA(tz) /\ Prefixed(tz) /\ Remainder(tz) # <<>> /\ ~IsInteger(Remainder(tz))

Unrecognized(tz) == ~IsIANA(tz) /\ ~Prefixed(tz)

\* The sub-offers of an entry, current and upcoming.
AllSubs(e) ==
    { SubAt(e.PromotionalOffers, p) : p \in Positions(e.PromotionalOffers) }
    \cup { SubAt(e.UpcomingPromotionalOffers, p) : p \in Positions(e.UpcomingPromotionalOffers) }

\* The records whose dates were formatted from upstream dates.
ExactRecords == { k \in 1..Len(games) : games[k].DatePrecision = "exact" }

\* Record g carries the dates of a sub-offer of e, each RFC 3339 date of it
\* rendered in a zone for which InZone(offset, name) holds.
RenderedDates(g, e, InZone(_, _)) ==
    \E sub \in AllSubs(e) :
       /\ IF sub.StartDate.kind = "rfc3339"
          THEN /\ g.StartDate.kind = "formatted"
               /\ InZone(g.StartDate.t - sub.StartDate.t, g.StartDate.zone)
          ELSE g.StartDate = sub.StartDate
       /\ IF sub.EndDate.kind = "rfc3339"
          THEN /\ g.EndDate.kind = "formatted"
               /\ InZone(g.EndDate.t - sub.EndDate.t, g.EndDate.zone)
          ELSE g.EndDate = sub.EndDate

(***************************************************************************)
(* C18: the date formatter always renders an RFC 3339 date, in a zone      *)
(* that is: the zone of the tz database for an IANA name; the fixed offset *)
(* of h hours for UTC or GMT followed by a signed integer h; the fixed     *)
(* +8-hour zone for a string that is neither an IANA name nor prefixed by  *)
(* UTC or GMT.                                                             *)
(***************************************************************************)
ResolvedZone(offset, name) ==
    /\ IsIANA(timezone)
       => offset = LoadLocation(timezone).loc.offset /\ name = LoadLocation(timezone).loc.name
    /\ OffsetString(timezone)
       => offset = IntegerValue(Remainder(timezone)) * 3600
    /\ Unrecognized(timezone)
       => offset = 8 * 3600

C18_ZoneAlwaysResolved ==
    \A k \in ExactRecords : RenderedDates(games[k], elements[origin[k]], ResolvedZone)

C18_Witness ==
    /\ pc = "return"
    /\ timezone = <<"U", "T", "C", "+", "3">>
    /\ \E k \in ExactRecords :
          /\ games[k].StartDate.kind = "formatted"
          /\ games[k].StartDate.t = T1 + 3 * 3600

(***************************************************************************)
(* C19: for a timezone string that is not an IANA name, starts with UTC or *)
(* GMT and goes on with characters that are not an integer, the date       *)
(* formatter renders in the fixed UTC+8 zone (28800 seconds).              *)
(***************************************************************************)
FallbackZone(offset, name) == offset = 28800

C19_BadOffsetFallsBack ==
    BadOffsetString(timezone)
    => \A k \in ExactRecords : RenderedDates(games[k], elements[origin[k]], FallbackZone)

(***************************************************************************)
(* C20: the dates estimated from the price are rendered in the zone the    *)
(* date formatter resolves for the same timezone string: the start date is *)
(* the current time and the end date the time seven days later, in that    *)
(* zone.                                                                   *)
(***************************************************************************)
C20_EstimateInFormatterZone ==
    \A k \in 1..Len(games) :
        games[k].DatePrecision = "estimated"
        => LET zone == FormatLocation(timezone)
           IN  /\ games[k].StartDate = Formatted(clock + zone.offset, zone.name)
               /\ games[k].EndDate =
                     Formatted(clock + 7 * 24 * 3600 + zone.offset, zone.name)


(***************************************************************************)
(* Vocabulary of the properties of concurrent invocations: what an         *)
(* invocation returns and posts when it runs alone on the same upstream    *)
(* response.                                                               *)
(***************************************************************************)
RECURSIVE RecordsAlone(_, _, _, _)
RecordsAlone(list, upcoming, tz, now) ==
    IF list = <<>> THEN <<>>
    ELSE LET r == ProcessEntry(Head(list), upcoming, tz, now)
         IN  (IF r.keep THEN <<r.game>> ELSE <<>>)
             \o RecordsAlone(Tail(list), upcoming, tz, now)

Alone(i) == RecordsAlone(inv[i].elements, inv[i].includeUpcoming, timezone, clock)

PostsOf(i) == { k \in 1..Len(outbox) : outbox[k].from = i }

HasReturned(i) == inv[i].pc \in {"return", "send", "sent", "respond", "done"} /\ inv[i].err = NoError

\* Invocation i is past the point where its path calls SendDiscordNotification.
PastSend(i) ==
    /\ inv[i].err = NoError
    /\ webhookURL # ""
    /\ inv[i].pc \in {"sent", "done"}

\* The stages of the single invocation and the loop iteration agree.
StagesAgree ==
    (pc = "return" /\ err = NoError)
    => games = RecordsAlone(elements, includeUpcoming, timezone, clock)

(***************************************************************************)
(* C16: under every interleaving of the steps of concurrent invocations,   *)
(* the records an invocation returns and the message it posts are those it *)
(* would produce alone on its own upstream response, and every invocation  *)
(* that has records and a configured webhook posts exactly one message of  *)
(* its own, whatever the others post.                                      *)
(***************************************************************************)
C16_InvocationsIndependent ==
    \A i \in Invocations :
       /\ HasReturned(i) => buffers[GamesBuffer(i)] = Alone(i)
       /\ (inv[i].pc = "done" /\ inv[i].route = "api" /\ inv[i].err = NoError)
          => inv[i].response.Data = Alone(i)
       /\ \A k \in PostsOf(i) : outbox[k].message = WebhookMessage(Alone(i), clock)
       /\ Cardinality(PostsOf(i)) <= 1
       /\ (PastSend(i) /\ Alone(i) # <<>>) => Cardinality(PostsOf(i)) = 1

C16_Witness ==
    /\ \A i \in Invocations : inv[i].pc = "done"
    /\ Len(outbox) = 2
    /\ outbox[1].from = 2
    /\ outbox[2].from = 1
    /\ outbox[1].message = outbox[2].message
    /\ inv[1].route = "api"
    /\ inv[2].route = "cron"


(***************************************************************************)
(* Vocabulary of the properties of the page and the image of a record.     *)
(***************************************************************************)
NonEmptySlugs(mappings) == { k \in 1..Len(mappings) : mappings[k].PageSlug # <<>> }

FirstNonEmptySlug(mappings) ==
    mappings[CHOOSE k \in NonEmptySlugs(mappings) :
                \A m \in NonEmptySlugs(mappings) : k <= m].PageSlug

ExpectedSlug(e) ==
    IF NonEmptySlugs(e.OfferMappings) # {} THEN FirstNonEmptySlug(e.OfferMappings)
    ELSE IF NonEmptySlugs(e.CatalogMappings) # {} THEN FirstNonEmptySlug(e.CatalogMappings)
    ELSE <<>>

Covers(images) ==
    { k \in 1..Len(images) : images[k].Type \in {"Thumbnail", "DieselGameBox"} }

(***************************************************************************)
(* C21: the URL of every record is the base                                *)
(* "https://store.epicgames.com/en-US/p/" followed by the first non-empty  *)
(* pageSlug of offerMappings, else the first non-empty pageSlug of         *)
(* catalogNs.mappings, else nothing; every entry is emitted whatever its   *)
(* slug.                                                                   *)
(***************************************************************************)
C21_UrlFromFirstSlug ==
    \A j \in 1..Len(elements) :
        Processed(j)
        => /\ Emitted(j)
           /\ \A k \in RecordsOf(j) :
                 LET url == games[k].URL
                     slug == ExpectedSlug(elements[j])
                 IN  /\ Len(url) = 36 + Len(slug)
                     /\ SubSeq(url, 1, 8) = <<"h", "t", "t", "p", "s", ":", "/", "/">>
                     /\ SubSeq(url, 9, 27) =
                           <<"s", "t", "o", "r", "e", ".", "e", "p", "i", "c",
                             "g", "a", "m", "e", "s", ".", "c", "o", "m">>
                     /\ SubSeq(url, 28, 36) = <<"/", "e", "n", "-", "U", "S", "/", "p", "/">>
                     /\ SubSeq(url, 37, Len(url)) = slug

C21_Witness ==
    /\ pc = "return"
    /\ Len(games) = 1
    /\ Len(elements[1].OfferMappings) = 2
    /\ elements[1].OfferMappings[1].PageSlug = <<>>
    /\ elements[1].OfferMappings[2].PageSlug = <<"b", "a", "r">>
    /\ elements[1].CatalogMappings # <<>>
    /\ elements[1].CatalogMappings[1].PageSlug = <<"f", "o", "o">>
    /\ SubSeq(games[1].URL, 36, 39) = <<"/", "b", "a", "r">>

(***************************************************************************)
(* C22: the image URL of every record is the url of the first key image,   *)
(* in upstream order, whose type is "Thumbnail" or "DieselGameBox", and is *)
(* empty when no key image has one of these types.                         *)
(***************************************************************************)
C22_FirstCoverImage ==
    \A k \in 1..Len(games) :
        LET images == elements[origin[k]].KeyImages
        IN  IF Covers(images) = {}
            THEN games[k].ImageURL = ""
            ELSE \E c \in Covers(images) :
                    /\ \A d \in Covers(images) : c <= d
                    /\ games[k].ImageURL = images[c].URL

C22_Witness ==
    /\ pc = "return"
    /\ Len(games) = 1
    /\ Len(elements[1].KeyImages) = 2
    /\ elements[1].KeyImages[1].Type = "DieselGameBox"
    /\ elements[1].KeyImages[2].Type = "Thumbnail"
    /\ games[1].ImageURL = "c"


(***************************************************************************)
(* C23: for a request to GET /api/free-games, each of the query parameters *)
(* country, locale and timezone that is present and non-empty is the value *)
(* passed to fetchFreeGames, and upcoming sets includeUpcoming when it     *)
(* parses as a boolean; otherwise the defaults are used (true for          *)
(* upcoming).                                                              *)
(***************************************************************************)
C23_QueryOverridesDefaults ==
    (route = "api" /\ pc # "request")
    => /\ query.country # "" => countryCode = query.country
       /\ query.locale # "" => locale = query.locale
       /\ query.timezone # <<>> => timezone = query.timezone
       /\ includeUpcoming = CASE query.upcoming \in {"true"} -> TRUE
                              [] query.upcoming \in {"0"} -> FALSE
                              [] OTHER -> TRUE


(***************************************************************************)
(* C24: a call of fetchFreeGames that is given the same upstream payload,  *)
(* the same parameters and the same current time as an earlier call        *)
(* returns the same list of records, whatever calls ran before or between  *)
(* the two.                                                                *)
(***************************************************************************)
SameInputs(h) ==
    /\ h.elements = elements
    /\ h.includeUpcoming = includeUpcoming
    /\ h.timezone = timezone
    /\ h.now = clock

C24_SameInputsSameRecords ==
    (pc = "return" /\ err = NoError)
    => \A k \in 1..Len(history) :
          (SameInputs(history[k]) /\ history[k].err = NoError)
          => history[k].games = games

C24_Witness ==
    /\ pc = "return"
    /\ err = NoError
    /\ Len(history) = 2
    /\ SameInputs(history[1])
    /\ ~SameInputs(history[2])
    /\ history[1].games = games
    /\ history[2].games # games
    /\ Len(games) = 2


(***************************************************************************)
(* C25: the fallback upgrade changes a record only when its status is      *)
(* "free" and its start and end dates are both empty or its precision is   *)
(* "estimated".  Then the dates become those of the first current offer    *)
(* whose sub-offer at index 0 has a start and an end date, whatever its    *)
(* discount, with precision "exact"; sub-offers at index 1 and above are   *)
(* not looked at; when no offer qualifies the record is unchanged.         *)
(***************************************************************************)
FallbackRuns(g) ==
    /\ g.Status = "free"
    /\ \/ BothEmpty(g)
       \/ g.DatePrecision = "estimated"

FallbackStep == pc = "fallback" /\ pc' = "guard"

FreeInBoth(e) == HasFree(e.PromotionalOffers) /\ HasFree(e.UpcomingPromotionalOffers)

PastUpcomingScan == pc \in {"price", "filter", "fallback", "guard"}

DatesFromCurrent(g, cur) ==
    IF ~BothEmpty(LastFree(cur)) THEN DatesOf(g, LastFree(cur))
    ELSE IF DatedOffers(cur) # {} THEN DatesOf(g, FirstDated(cur))
    ELSE g.StartDate = Unknown /\ g.EndDate = Unknown

C26_CurrentHasPriority ==
    /\ (PastUpcomingScan /\ FreeInBoth(element))
       => (isCurrentlyFree /\ ~hasUpcomingFree /\ game.Status = "free")
    /\ \A j \in 1..Len(elements) :
          (Processed(j) /\ FreeInBoth(elements[j]))
          => /\ Cardinality(RecordsOf(j)) = 1
             /\ \A k \in RecordsOf(j) :
                   /\ games[k].Status = "free"
                   /\ DatesFromCurrent(games[k], elements[j].PromotionalOffers)

C26_Witness ==
    /\ pc = "return"
    /\ includeUpcoming
    /\ \E j \in 1..Len(elements) :
          LET cur == LastFree(elements[j].PromotionalOffers)
              up == LastFree(elements[j].UpcomingPromotionalOffers)
          IN  /\ FreeInBoth(elements[j])
              /\ ~BothEmpty(cur)
              /\ BothPresent(up)
              /\ up.StartDate # cur.StartDate
              /\ up.EndDate # cur.EndDate
              /\ \E k \in RecordsOf(j) :
                    /\ games[k].Status = "free"
                    /\ DatesOf(games[k], cur)
                    /\ ~DatesOf(games[k], up)


(***************************************************************************)
(* C29: the upcoming-exclusion filter never removes an entry: when the     *)
(* filter is evaluated with includeUpcoming false, the status of the       *)
(* record is not "coming soon", so the entry goes on to the fallback.      *)
(***************************************************************************)
AtFilter == pc = "filter"

C29_FilterNeverRemoves ==
    /\ []((AtFilter /\ ~includeUpcoming) => game.Status # "coming soon")
    /\ [][(AtFilter /\ ~includeUpcoming) => (pc' = "fallback" /\ idx' = idx)]_vars

C29_Witness ==
    /\ pc = "fallback"
    /\ ~includeUpcoming
    /\ ~HasFree(element.PromotionalOffers)
    /\ HasFree(element.UpcomingPromotionalOffers)
    /\ game.Status = "free"
    /\ game.DatePrecision = "estimated"


(***************************************************************************)
(* C27: GET /api/free-games calls the webhook if and only if the upstream  *)
(* fetch succeeded, the record list is not empty, a webhook URL is         *)
(* configured and the notify parameter is absent or parses as true; a      *)
(* notify value that is false or does not parse suppresses the call.  The  *)
(* call, when made, is made once and before the response body is written.  *)
(***************************************************************************)
TrueWords == {"1", "t", "T", "TRUE", "true", "True"}

NotifyWanted == query.notify = "" \/ query.notify \in TrueWords

WebhookCalled == posts # <<>>

C27_NotifyOnlyWhenWanted ==
    /\ []((route = "api" /\ Finished)
          => (WebhookCalled <=> /\ err = NoError
                                /\ Len(games) > 0
                                /\ webhookURL # ""
                                /\ NotifyWanted))
    /\ []((route = "api" /\ response # NoResponse /\ WebhookCalled)
          => Len(posts) = 1)
    /\ [][(route = "api" /\ posts' # posts)
          => (response = NoResponse /\ response' = NoResponse)]_vars

C27_Witness ==
    /\ route = "api"
    /\ Finished
    /\ query.notify = "true"
    /\ WebhookCalled
    /\ response.Status = StatusOK
    /\ response.Count = Len(games)


(***************************************************************************)
(* C30: whenever the /notify route answers with success ("Notification     *)
(* sent for N games"), a webhook POST was made during the request and      *)
(* returned a 2xx status; and when no webhook URL is configured the route  *)
(* answers with an error without calling the upstream catalog.             *)
(***************************************************************************)
NotifySucceeded ==
    route = "notify" /\ Finished /\ response.Status = StatusOK /\ response.Success

RefusedUnfetched ==
    /\ response.Status = StatusInternalServerError
    /\ upstreamCalls = 0
    /\ posts = <<>>

C30_SuccessMeansPosted ==
    /\ NotifySucceeded => (Len(posts) = 1 /\ sendErr = "nil")
    /\ (route = "notify" /\ Finished /\ webhookURL = "") => RefusedUnfetched

(***************************************************************************)
(* C30 (amended): whenever the /notify route answers with success for a    *)
(* list of N >= 1 records, one webhook POST was made during the request    *)
(* and returned a 2xx status; for an empty list it answers with success    *)
(* ("Notification sent for 0 games") without any POST.  When no webhook    *)
(* URL is configured the route answers with an error without calling the   *)
(* upstream catalog.                                                       *)
(***************************************************************************)
C30_SuccessMeansPostedUnlessEmpty ==
    /\ NotifySucceeded
       => /\ sendErr = "nil"
          /\ err = NoError
          /\ response.Message = <<"Notification sent for games", Len(games)>>
          /\ Len(posts) = (IF Len(games) = 0 THEN 0 ELSE 1)
    /\ (route = "notify" /\ Finished /\ webhookURL = "") => RefusedUnfetched

C30_Witness ==
    /\ NotifySucceeded
    /\ Len(games) = 0
    /\ upstreamCalls = 1
    /\ posts = <<>>


(***************************************************************************)
(* C28: each firing of the scheduled job calls fetchFreeGames once, with   *)
(* includeUpcoming true; it calls the webhook only if that fetch succeeded *)
(* and a webhook URL is configured; with no webhook URL the job still runs *)
(* and never notifies; and an error of the fetch or of the notification in *)
(* one firing does not stop the later firings.                             *)
(***************************************************************************)
FiringEnded == route = "cron" /\ pc = "done"

FiringFailed == err # NoError \/ SendError

C28_EveryFiringFetchesOnce ==
    /\ [](FiringEnded => upstreamCalls = Firings)
    /\ [](route = "cron" => (upstreamCalls <= Firings /\ Len(posts) <= Firings))
    /\ [][(route = "cron" /\ upstreamCalls' # upstreamCalls)
          => (includeUpcoming /\ upstreamCalls' = Firings)]_vars
    /\ [][(route = "cron" /\ posts' # posts)
          => (err = NoError /\ webhookURL # "" /\ upstreamCalls = Firings)]_vars
    /\ []((route = "cron" /\ webhookURL = "") => posts = <<>>)
    /\ []((FiringEnded /\ Firings < MaxFirings) => ENABLED CronNextFiring)

\* The first firing failed to fetch, the second failed to notify, the third
\* has posted with success.
C28_Witness ==
    /\ FiringEnded
    /\ Firings = 3
    /\ upstreamCalls = 3
    /\ Len(posts) = 2
    /\ sendErr = "nil"
    /\ \E a, b \in 1..Len(logs) :
          /\ a < b
          /\ logs[a] = "Error fetching free games"
          /\ logs[b] = "Error sending Discord notification"

=============================================================================
